---- MODULE Spec2Model ----
(***************************************************************************)
(* A model of trakt-proxy: the global TMDB season cache                    *)
(* (src/lib/tmdb-cache.ts), the episode enrichment built on it, the sync   *)
(* trigger route and the sync orchestrator (src/lib/trakt-sync.ts).        *)
(*                                                                         *)
(* Time is counted in minutes since the epoch; an air date is a day        *)
(* number (the date string parsed at UTC midnight).                        *)
(***************************************************************************)
EXTENDS Integers, Sequences, FiniteSets, TLC

\* ------------------------------------------------------------------------
\* Program constants of src/lib/tmdb-cache.ts
\* ------------------------------------------------------------------------
DEFAULT_TTL_DAYS == 30
ONGOING_TTL_DAYS == 7
RECENT_AIR_DATE_DAYS == 14
ERROR_TTL_MINUTES == 5
\* 24 * 60 minutes in a day
MinutesPerDay == 1440

\* ------------------------------------------------------------------------
\* Bounds of the model
\* ------------------------------------------------------------------------
\* number of concurrent callers of getSeasonFromCacheOrTMDB
NumCallers == 2
\* the clock advances at most this many minutes past its initial value
MaxElapsed == 5

Callers == 1..NumCallers

\* the clock value of the initial states: day 70, 00:00
T0 == 70 * MinutesPerDay

\* null (a missing document, a null return value, a null response)
Null == << >>
\* a null air date
NoAirDate == -1

\* the seasons of show 100 the cache is asked for; a cache key is the season
\* number (tmdb_cache/shows/100/seasons/{seasonNumber})
Seasons == {0, 1}

\* ------------------------------------------------------------------------
\* Catalog responses (TMDBSeasonResponse)
\* ------------------------------------------------------------------------
TmdbEpisode(num, id, name, air) ==
    [id |-> id, name |-> name, episode_number |-> num, air_date |-> air,
     still_path |-> "/still.jpg"]

TmdbSeason(season, eps) ==
    [id |-> 9000 + season, season_number |-> season, episodes |-> eps]

\* air dates: day 10 and day 17 are long past, day 60 is within 14 days of day 70
EpisodeLists ==
    { << TmdbEpisode(1, 555, "Pilot", 10), TmdbEpisode(2, 556, "Second", 17) >>,
      << TmdbEpisode(1, 555, "Pilot", 10), TmdbEpisode(2, 556, "Second", 60) >>,
      << TmdbEpisode(1, 555, "Pilot", NoAirDate), TmdbEpisode(2, 556, "Second", 17) >>,
      << TmdbEpisode(1, 557, "Premiere", 10) >>,
      << >> }

\* ------------------------------------------------------------------------
\* Documents: a document is a function from its field names to values,
\* the empty function when the document does not exist.
\* ------------------------------------------------------------------------
Exists(doc) == DOMAIN doc # {}

\* set(data, {merge: true}) on top-level fields
MergeSet(doc, data) ==
    [f \in (DOMAIN doc) \cup (DOMAIN data) |->
        IF f \in DOMAIN data THEN data[f] ELSE doc[f]]

\* the episodes map of a document, with whether the field is there
EpisodesOf(doc) ==
    IF "episodes" \in DOMAIN doc
    THEN [present |-> TRUE, map |-> doc.episodes]
    ELSE [present |-> FALSE, map |-> << >>]

Max(S) == CHOOSE x \in S : \A y \in S : y <= x

\* transformSeasonData: episode_number -> {episodeId, episodeName, episodeAirDate};
\* a later element of the array overwrites an earlier one with the same number
transformSeasonData(tmdbSeason) ==
    LET eps == tmdbSeason.episodes
        nums == { eps[i].episode_number : i \in 1..Len(eps) }
        last(n) == Max({ i \in 1..Len(eps) : eps[i].episode_number = n })
    IN [n \in nums |->
          [episodeId |-> eps[last(n)].id,
           episodeName |-> eps[last(n)].name,
           episodeAirDate |-> eps[last(n)].air_date]]

\* a variant that takes a season for ongoing as soon as any episode has no
\* air date
isSeasonOngoingAnyUndated(episodes, t) ==
    LET episodeNumbers == DOMAIN episodes
    IN IF episodeNumbers = {} THEN FALSE
       ELSE LET latestEpisode == episodes[Max(episodeNumbers)]
            IN IF \E n \in episodeNumbers : episodes[n].episodeAirDate = NoAirDate
               THEN TRUE
               ELSE t - latestEpisode.episodeAirDate * MinutesPerDay
                      < RECENT_AIR_DATE_DAYS * MinutesPerDay

\* a variant that takes a season without episodes for ongoing
isSeasonOngoingWhenEmpty(episodes, t) ==
    LET episodeNumbers == DOMAIN episodes
    IN IF episodeNumbers = {} THEN TRUE
       ELSE LET latestEpisode == episodes[Max(episodeNumbers)]
            IN IF latestEpisode.episodeAirDate = NoAirDate THEN TRUE
               ELSE t - latestEpisode.episodeAirDate * MinutesPerDay
                      < RECENT_AIR_DATE_DAYS * MinutesPerDay

\* isSeasonOngoing, evaluated at clock value t
isSeasonOngoing(episodes, t) ==
    LET episodeNumbers == DOMAIN episodes
    IN IF episodeNumbers = {} THEN FALSE
       ELSE LET latestEpisode == episodes[Max(episodeNumbers)]
            IN IF latestEpisode.episodeAirDate = NoAirDate THEN TRUE
               ELSE t - latestEpisode.episodeAirDate * MinutesPerDay
                      < RECENT_AIR_DATE_DAYS * MinutesPerDay

\* a variant that already refreshes an entry whose age equals its TTL
isCacheStaleAtTtl(cacheData, t) ==
    LET ttlDays == IF isSeasonOngoing(cacheData.episodes, t)
                   THEN ONGOING_TTL_DAYS ELSE DEFAULT_TTL_DAYS
    IN t - cacheData.lastUpdated >= ttlDays * MinutesPerDay

\* isCacheStale, evaluated at clock value t
isCacheStale(cacheData, t) ==
    LET ttlDays == IF isSeasonOngoing(cacheData.episodes, t)
                   THEN ONGOING_TTL_DAYS ELSE DEFAULT_TTL_DAYS
    IN t - cacheData.lastUpdated > ttlDays * MinutesPerDay


\* ------------------------------------------------------------------------
\* State
\* ------------------------------------------------------------------------
VARIABLES
    now,        \* Date.now() / Timestamp.now(), in minutes
    cache,      \* tmdb_cache documents, by season number
    fetches,    \* catalog requests issued so far, by season number
    cpc,        \* where each caller is in getSeasonFromCacheOrTMDB
    ckey,       \* the season a caller in flight asked for
    cbefore,    \* the document the transaction of a caller in flight read
    cresp,      \* the catalog response a caller in flight holds
    last,       \* the call that returned last: key, transactionResult.action,
                \* return value, whether it ended in the catch block
    cycle       \* by season: "open" while the entry found eligible for a fetch
                \* at the start has been read by no transaction, "taken" once
                \* one has committed, "closed" when it was not eligible

cacheVars == << now, cache, fetches, cpc, ckey, cbefore, cresp, last, cycle >>

VARIABLES
    userEpisodes,   \* the episodes map of users/{userId}/episode_tracking/100
    epc,            \* where the enrichment endpoint is
    einput,         \* the episodes map passed to enrichEpisodeTracking
    eout,           \* enrichedEpisodes
    erest,          \* the seasons enrichEpisodeTracking has still to visit
    ecalls,         \* getSeasonFromCacheOrTMDB calls made by the enrichment, by season
    written         \* the record another writer has stored, if any

enrichVars == << userEpisodes, epc, einput, eout, erest, ecalls, written >>

VARIABLES
    user,       \* the document users/{userId}
    tpc,        \* where each trigger request (POST /api/trakt/sync) is
    tdata,      \* userData: the snapshot of the user document a trigger read
    ttoken,     \* accessToken of a trigger
    tnew,       \* refreshedTokens of a trigger
    tresp,      \* the HTTP status a trigger answered with
    rpc,        \* where each syncTraktData run is
    rcol,       \* the collection a run is at (1..6)
    rresp,      \* the number of records of the response a run holds
    rtoken,     \* the access token a run was dispatched with
    ritems,     \* itemsSynced of a run
    rerrors,    \* errors of a run
    dpc         \* where the disconnect request (POST /api/trakt/callback) is

triggerVars == << tpc, tdata, ttoken, tnew, tresp >>
runVars == << rpc, rcol, rresp, rtoken, ritems, rerrors >>
syncVars == << user, triggerVars, runVars, dpc >>

VARIABLES
    lists,      \* users/{userId}/lists, by document id
    ratings,    \* users/{userId}/ratings, by document id
    tracking,   \* users/{userId}/episode_tracking, by show id
    upstream,   \* what the source service answers to each request
    wpc,        \* the run (1 or 2) and the collection the writes are at
    afterFirst, \* the three collections as the first run left them
    wresult,    \* itemsSynced and errors of the run, and the status it wrote
    allAlreadyWatchedItems  \* the map the revision that writes the watched
                            \* movies and shows together collects them in

storeVars ==
    << lists, ratings, tracking, upstream, wpc, afterFirst, wresult,
       allAlreadyWatchedItems >>

vars == << cacheVars, enrichVars, syncVars, storeVars >>

\* ------------------------------------------------------------------------
\* getSeasonFromCacheOrTMDB
\* ------------------------------------------------------------------------

\* a variant without the check for a populating entry
TransactionActionNoLock(cacheData, t) ==
    IF ~Exists(cacheData) THEN "fetch"
    ELSE IF cacheData.status = "error"
            /\ t - cacheData.lastUpdated < ERROR_TTL_MINUTES THEN "skip"
    ELSE IF cacheData.status = "complete" /\ ~isCacheStale(cacheData, t)
         THEN "return_cache"
    ELSE "fetch"

\* a variant that retries an entry in error at once
TransactionActionNoBackoff(cacheData, t) ==
    IF ~Exists(cacheData) THEN "fetch"
    ELSE IF cacheData.status = "populating" THEN "skip"
    ELSE IF cacheData.status = "complete" /\ ~isCacheStale(cacheData, t)
         THEN "return_cache"
    ELSE "fetch"

\* a variant that lets a second call refresh an entry being populated
TransactionActionSharedLock(cacheData, t) ==
    IF ~Exists(cacheData) THEN "fetch"
    ELSE IF cacheData.status = "populating" THEN "fetch"
    ELSE IF cacheData.status = "error"
            /\ t - cacheData.lastUpdated < ERROR_TTL_MINUTES THEN "skip"
    ELSE IF cacheData.status = "complete" /\ ~isCacheStale(cacheData, t)
         THEN "return_cache"
    ELSE "fetch"

\* a variant whose backoff still holds when the error is exactly 5 minutes old
TransactionActionBackoffInclusive(cacheData, t) ==
    IF ~Exists(cacheData) THEN "fetch"
    ELSE IF cacheData.status = "populating" THEN "skip"
    ELSE IF cacheData.status = "error"
            /\ t - cacheData.lastUpdated <= ERROR_TTL_MINUTES THEN "skip"
    ELSE IF cacheData.status = "complete" /\ ~isCacheStale(cacheData, t)
         THEN "return_cache"
    ELSE "fetch"

\* a variant that serves what an entry in error or being populated still
\* holds
TransactionActionServesLeftover(cacheData, t) ==
    IF ~Exists(cacheData) THEN "fetch"
    ELSE IF cacheData.status = "populating"
         THEN (IF "episodes" \in DOMAIN cacheData THEN "return_cache" ELSE "skip")
    ELSE IF cacheData.status = "error"
            /\ t - cacheData.lastUpdated < ERROR_TTL_MINUTES
         THEN (IF "episodes" \in DOMAIN cacheData THEN "return_cache" ELSE "skip")
    ELSE IF cacheData.status = "complete" /\ ~isCacheStale(cacheData, t)
         THEN "return_cache"
    ELSE "fetch"

\* the decision taken inside the transaction on the document read at time t
TransactionAction(cacheData, t) ==
    IF ~Exists(cacheData) THEN "fetch"
    ELSE IF cacheData.status = "populating" THEN "skip"
    ELSE IF cacheData.status = "error"
            /\ t - cacheData.lastUpdated < ERROR_TTL_MINUTES THEN "skip"
    ELSE IF cacheData.status = "complete" /\ ~isCacheStale(cacheData, t)
         THEN "return_cache"
    ELSE "fetch"

\* the lock write of the transaction: set({status, lastUpdated}, {merge: true})
AcquireWrite(doc, t) ==
    MergeSet(doc, [status |-> "populating", lastUpdated |-> t])

\* a variant that writes the error document without merge
ErrorWriteNoMerge(doc, t) ==
    [status |-> "error", lastUpdated |-> t]

\* the write after a failed fetch: set({status, lastUpdated}, {merge: true})
ErrorWrite(doc, t) ==
    MergeSet(doc, [status |-> "error", lastUpdated |-> t])

\* a variant that merges the fresh episodes into the stored ones
CompleteWriteKeepsOld(tmdbSeason, t) ==
    [episodes |-> MergeSet([n \in {2} |-> [episodeId |-> 556,
                                          episodeName |-> "Second",
                                          episodeAirDate |-> 17]],
                           transformSeasonData(tmdbSeason)),
     lastUpdated |-> t,
     status |-> "complete"]

\* the write after a successful fetch: set(cacheData), no merge
CompleteWrite(tmdbSeason, t) ==
    [episodes |-> transformSeasonData(tmdbSeason),
     lastUpdated |-> t,
     status |-> "complete"]

\* a variant of the catch block that throws the error on to the caller
CatchBlockRethrows(error) == [thrown |-> error]

\* the catch block of getSeasonFromCacheOrTMDB: the error is logged and the
\* call returns null
CatchBlock(error) == Null

Returned(k, action, ret, caught) ==
    [key |-> k, action |-> action, ret |-> ret, caught |-> caught]

\* db.runTransaction: read, decide and (for "fetch") write in one atomic step;
\* "skip" and "return_cache" return at once
RunTransaction(c, k) ==
    /\ cpc[c] = "idle"
    /\ LET cacheData == cache[k]
           action == TransactionAction(cacheData, now)
       IN IF action = "fetch"
          THEN /\ cache' = [cache EXCEPT ![k] = AcquireWrite(cacheData, now)]
               /\ cpc' = [cpc EXCEPT ![c] = "fetch"]
               /\ ckey' = [ckey EXCEPT ![c] = k]
               /\ cbefore' = [cbefore EXCEPT ![c] = cacheData]
               /\ UNCHANGED last
          ELSE /\ cpc' = [cpc EXCEPT ![c] = "done"]
               /\ last' = Returned(k, action,
                            IF action = "return_cache" THEN cacheData ELSE Null,
                            FALSE)
               /\ UNCHANGED << cache, ckey, cbefore >>
    /\ cycle' = [cycle EXCEPT ![k] = IF @ = "open" THEN "taken" ELSE @]
    /\ UNCHANGED << now, fetches, cresp >>

\* db.runTransaction rejects (store unavailable, contention): catch, return null
TransactionThrows(c, k) ==
    /\ cpc[c] = "idle"
    /\ cpc' = [cpc EXCEPT ![c] = "done"]
    /\ last' = Returned(k, "throw", CatchBlock("transaction"), TRUE)
    /\ UNCHANGED << now, cache, fetches, ckey, cbefore, cresp, cycle >>

\* the answers of the catalog seen while a call is in flight
Responses(k) ==
    { TmdbSeason(k, << TmdbEpisode(1, 555, "Pilot", 10), TmdbEpisode(2, 556, "Second", 17) >>),
      TmdbSeason(k, << TmdbEpisode(1, 557, "Premiere", 10) >>) }

\* fetchSeasonFromTMDB: one catalog request; null on a non-2xx answer or a
\* network error
FetchSeasonFromTMDB(c) ==
    /\ cpc[c] = "fetch"
    /\ \E resp \in {Null} \cup Responses(ckey[c]) :
          cresp' = [cresp EXCEPT ![c] = resp]
    /\ fetches' = [fetches EXCEPT ![ckey[c]] = @ + 1]
    /\ cpc' = [cpc EXCEPT ![c] = "store"]
    /\ UNCHANGED << now, cache, ckey, cbefore, last, cycle >>

\* the call is over: its locals are gone
EndCall(c) ==
    /\ cpc' = [cpc EXCEPT ![c] = "done"]
    /\ ckey' = [ckey EXCEPT ![c] = 0]
    /\ cbefore' = [cbefore EXCEPT ![c] = Null]
    /\ cresp' = [cresp EXCEPT ![c] = Null]

\* the catalog answers 2xx with a body that is no JSON: response.json() is
\* returned without await, so its rejection passes the catch of
\* fetchSeasonFromTMDB and ends in the catch block of the call, the entry
\* left as the transaction wrote it
FetchBodyThrows(c) ==
    /\ cpc[c] = "fetch"
    /\ fetches' = [fetches EXCEPT ![ckey[c]] = @ + 1]
    /\ last' = Returned(ckey[c], "fetch", CatchBlock("body"), TRUE)
    /\ EndCall(c)
    /\ UNCHANGED << now, cache, cycle >>

\* the final write: error status after a failed fetch, the fresh entry otherwise
StoreResult(c) ==
    /\ cpc[c] = "store"
    /\ LET k == ckey[c]
       IN IF cresp[c] = Null
          THEN /\ cache' = [cache EXCEPT ![k] = ErrorWrite(@, now)]
               /\ last' = Returned(k, "fetch", Null, FALSE)
          ELSE /\ cache' = [cache EXCEPT ![k] = CompleteWrite(cresp[c], now)]
               /\ last' = Returned(k, "fetch", CompleteWrite(cresp[c], now), FALSE)
    /\ EndCall(c)
    /\ UNCHANGED << now, fetches, cycle >>

\* the final write rejects: catch, return null
StoreThrows(c) ==
    /\ cpc[c] = "store"
    /\ last' = Returned(ckey[c], "fetch", CatchBlock("write"), TRUE)
    /\ EndCall(c)
    /\ UNCHANGED << now, cache, fetches, cycle >>

\* the caller has taken the result and may call again
CallerContinues(c) ==
    /\ cpc[c] = "done"
    /\ cpc' = [cpc EXCEPT ![c] = "idle"]
    /\ UNCHANGED << now, cache, fetches, ckey, cbefore, cresp, last, cycle >>

\* time passes: the clock is observed at T0, 4 minutes later and then every
\* minute
ClockValues == { T0 + e : e \in {0} \cup ((ERROR_TTL_MINUTES - 1)..MaxElapsed) }

Tick ==
    /\ \E t \in ClockValues : t > now /\ now' = t
    /\ UNCHANGED << cache, fetches, cpc, ckey, cbefore, cresp, last, cycle >>

\* ------------------------------------------------------------------------
\* Initial cache documents: every state a document can be left in
\* ------------------------------------------------------------------------
Days(n) == n * MinutesPerDay

StoredEpisodeMaps == { transformSeasonData(TmdbSeason(1, eps)) : eps \in EpisodeLists }

CompleteDocs ==
    { [episodes |-> m, lastUpdated |-> T0 - age, status |-> "complete"] :
        m \in StoredEpisodeMaps,
        age \in {0, Days(ONGOING_TTL_DAYS), Days(ONGOING_TTL_DAYS) + 1,
                 Days(DEFAULT_TTL_DAYS), Days(DEFAULT_TTL_DAYS) + 1} }

\* an error or populating document keeps the episodes of an earlier success,
\* and has none when the first fetch for the key failed
LeftoverDocs ==
    { MergeSet(base, [status |-> st, lastUpdated |-> T0 - age]) :
        base \in {Null, [episodes |-> transformSeasonData(
                           TmdbSeason(1, << TmdbEpisode(1, 555, "Pilot", 10),
                                            TmdbEpisode(2, 556, "Second", 17) >>))]},
        st \in {"error", "populating"},
        age \in {ERROR_TTL_MINUTES - 1, ERROR_TTL_MINUTES} }

InitDocs == {Null} \cup CompleteDocs \cup LeftoverDocs

\* the enrichment endpoint is not running
EnrichIdle ==
    /\ userEpisodes = << >>
    /\ epc = "off"
    /\ einput = << >>
    /\ eout = << >>
    /\ erest = << >>
    /\ ecalls = [k \in Seasons |-> 0]
    /\ written = << >>

\* no trigger has been received and no run dispatched
SyncIdle ==
    /\ user = << >>
    /\ tpc = << >>
    /\ tdata = << >>
    /\ ttoken = << >>
    /\ tnew = << >>
    /\ tresp = << >>
    /\ rpc = << >>
    /\ rcol = << >>
    /\ rresp = << >>
    /\ rtoken = << >>
    /\ ritems = << >>
    /\ rerrors = << >>
    /\ dpc = "none"

\* the collection writes are not looked at
StoreIdle ==
    /\ lists = << >>
    /\ ratings = << >>
    /\ tracking = << >>
    /\ upstream = << >>
    /\ wpc = << >>
    /\ afterFirst = << >>
    /\ wresult = << >>
    /\ allAlreadyWatchedItems = << >>

NoCall == Returned(0, "none", Null, FALSE)

\* an entry a call may fetch for: missing, complete but stale, or in error for
\* at least the backoff window
Eligible(doc, t) ==
    \/ ~Exists(doc)
    \/ doc.status = "complete" /\ isCacheStale(doc, t)
    \/ doc.status = "error" /\ t - doc.lastUpdated >= ERROR_TTL_MINUTES

CacheInit ==
    /\ now = T0
    /\ cache \in [Seasons -> InitDocs]
    /\ cache[0] = Null
    /\ fetches = [k \in Seasons |-> 0]
    /\ cpc = [c \in Callers |-> "idle"]
    /\ ckey = [c \in Callers |-> 0]
    /\ cbefore = [c \in Callers |-> Null]
    /\ cresp = [c \in Callers |-> Null]
    /\ last = NoCall
    /\ cycle = [k \in Seasons |-> IF Eligible(cache[k], T0) THEN "open" ELSE "closed"]
    /\ EnrichIdle
    /\ SyncIdle
    /\ StoreIdle

CacheNext ==
    \/ \E c \in Callers, k \in Seasons : RunTransaction(c, k) /\ UNCHANGED << enrichVars, syncVars, storeVars >>
    \/ \E c \in Callers, k \in Seasons : TransactionThrows(c, k) /\ UNCHANGED << enrichVars, syncVars, storeVars >>
    \/ \E c \in Callers : FetchSeasonFromTMDB(c) /\ UNCHANGED << enrichVars, syncVars, storeVars >>
    \/ \E c \in Callers : FetchBodyThrows(c) /\ UNCHANGED << enrichVars, syncVars, storeVars >>
    \/ \E c \in Callers : StoreResult(c) /\ UNCHANGED << enrichVars, syncVars, storeVars >>
    \/ \E c \in Callers : StoreThrows(c) /\ UNCHANGED << enrichVars, syncVars, storeVars >>
    \/ \E c \in Callers : CallerContinues(c) /\ UNCHANGED << enrichVars, syncVars, storeVars >>
    \/ Tick /\ UNCHANGED << enrichVars, syncVars, storeVars >>

SpecCache == CacheInit /\ [][CacheNext]_vars

\* ---- the revision without a transaction: a plain read of the entry, then
\* ---- a separate write of status populating ---------------------------------
\* Step 1: const cacheDoc = await seasonRef.get()
PlainRead(c, k) ==
    /\ cpc[c] = "idle"
    /\ cpc' = [cpc EXCEPT ![c] = "read"]
    /\ ckey' = [ckey EXCEPT ![c] = k]
    /\ cbefore' = [cbefore EXCEPT ![c] = cache[k]]
    /\ UNCHANGED << now, cache, fetches, cresp, last, cycle >>

\* the checks on the document read, which are those of the transaction, and
\* Step 2: seasonRef.set({status: "populating", lastUpdated}, {merge: true})
MarkPopulating(c) ==
    /\ cpc[c] = "read"
    /\ LET k == ckey[c]
           action == TransactionAction(cbefore[c], now)
       IN IF action = "fetch"
          THEN /\ cache' = [cache EXCEPT ![k] = AcquireWrite(@, now)]
               /\ cpc' = [cpc EXCEPT ![c] = "fetch"]
               /\ UNCHANGED << ckey, cbefore, cresp, last >>
          ELSE /\ last' = Returned(k, action,
                            IF action = "return_cache" THEN cbefore[c] ELSE Null,
                            FALSE)
               /\ EndCall(c)
               /\ UNCHANGED cache
    /\ UNCHANGED << now, fetches, cycle >>

\* the error write of the revision: set({status, lastUpdated, episodes: {}},
\* {merge: false})
ErrorWriteCleared(t) ==
    [status |-> "error", lastUpdated |-> t, episodes |-> << >>]

\* Step 3 after the request: the error write, or Step 4, the fresh entry
StoreResultCleared(c) ==
    /\ cpc[c] = "store"
    /\ LET k == ckey[c]
       IN IF cresp[c] = Null
          THEN /\ cache' = [cache EXCEPT ![k] = ErrorWriteCleared(now)]
               /\ last' = Returned(k, "fetch", Null, FALSE)
          ELSE /\ cache' = [cache EXCEPT ![k] = CompleteWrite(cresp[c], now)]
               /\ last' = Returned(k, "fetch", CompleteWrite(cresp[c], now), FALSE)
    /\ EndCall(c)
    /\ UNCHANGED << now, fetches, cycle >>

\* the entries the revision starts from: none, a fresh one, a stale one, one
\* in error past the backoff window
PlainInitDocs ==
    {Null}
    \cup { CompleteWrite(resp, t) :
              resp \in Responses(1), t \in {T0, T0 - Days(DEFAULT_TTL_DAYS) - 1} }
    \cup { [status |-> "error", lastUpdated |-> T0 - ERROR_TTL_MINUTES,
            episodes |-> << >>] }

PlainInit ==
    /\ now = T0
    /\ cache \in [Seasons -> PlainInitDocs]
    /\ cache[0] = Null
    /\ fetches = [k \in Seasons |-> 0]
    /\ cpc = [c \in Callers |-> "idle"]
    /\ ckey = [c \in Callers |-> 0]
    /\ cbefore = [c \in Callers |-> Null]
    /\ cresp = [c \in Callers |-> Null]
    /\ last = NoCall
    /\ cycle = [k \in Seasons |-> "closed"]
    /\ EnrichIdle
    /\ SyncIdle
    /\ StoreIdle

PlainNext ==
    \/ \E c \in Callers, k \in Seasons : PlainRead(c, k) /\ UNCHANGED << enrichVars, syncVars, storeVars >>
    \/ \E c \in Callers : MarkPopulating(c) /\ UNCHANGED << enrichVars, syncVars, storeVars >>
    \/ \E c \in Callers : FetchSeasonFromTMDB(c) /\ UNCHANGED << enrichVars, syncVars, storeVars >>
    \/ \E c \in Callers : StoreResultCleared(c) /\ UNCHANGED << enrichVars, syncVars, storeVars >>
    \/ \E c \in Callers : CallerContinues(c) /\ UNCHANGED << enrichVars, syncVars, storeVars >>
    \/ Tick /\ UNCHANGED << enrichVars, syncVars, storeVars >>

SpecPlain == PlainInit /\ [][PlainNext]_vars


\* ------------------------------------------------------------------------
\* Properties of the cache
\* ------------------------------------------------------------------------
\* callers that hold the populating right for k and have not yet issued
\* their catalog request
Pending(k) == Cardinality({ c \in Callers : cpc[c] = "fetch" /\ ckey[c] = k })

\* C1: single-flight. While no entry can have become eligible a second time
\* (less than the error backoff has passed since the start), the calls for a
\* key whose entry was missing or eligible for refresh have issued exactly
\* one catalog request between them as soon as one of their transactions
\* has committed (the winner's request may still be about to go out), and
\* none before; no key ever sees a second request in that window.
C1_SingleFlight ==
    now < T0 + ERROR_TTL_MINUTES =>
        \A k \in Seasons :
            /\ fetches[k] + Pending(k) <= 1
            /\ cycle[k] = "taken" => fetches[k] + Pending(k) = 1
            /\ cycle[k] = "open" => fetches[k] + Pending(k) = 0

\* a loser has returned Skip while the winner's single request is out
C1_Witness ==
    /\ now < T0 + ERROR_TTL_MINUTES
    /\ cycle[1] = "taken" /\ fetches[1] = 1
    /\ last.key = 1 /\ last.action = "skip"
    /\ \E c \in Callers : cpc[c] = "store" /\ ckey[c] = 1

\* C4: when the catalog fetch of the call holding the populating right has
\* failed and its final write goes through, the entry has status error and
\* lastUpdated = now, its episodes map is the one the call's transaction read
\* (absent when it was absent), and the call returns null.
C4_ErrorPreservesEpisodes ==
    [][ \A c \in Callers :
          (cpc[c] = "store" /\ cresp[c] = Null /\ cpc'[c] = "done" /\ ~last'.caught)
          => /\ cache'[ckey[c]].status = "error"
             /\ cache'[ckey[c]].lastUpdated = now
             /\ EpisodesOf(cache'[ckey[c]]) = EpisodesOf(cbefore[c])
             /\ last'.ret = Null /\ last'.key = ckey[c] ]_vars

\* a failed refresh has left the two episodes cached before in place
C4_Witness ==
    /\ last.action = "fetch" /\ last.ret = Null /\ ~last.caught
    /\ last.key = 1
    /\ cache[1].status = "error" /\ cache[1].lastUpdated = now
    /\ "episodes" \in DOMAIN cache[1]
    /\ DOMAIN cache[1].episodes = {1, 2}

\* the TTL of a complete entry, in minutes, at clock value t
TtlMinutes(doc, t) ==
    Days(IF isSeasonOngoing(doc.episodes, t) THEN ONGOING_TTL_DAYS ELSE DEFAULT_TTL_DAYS)

\* C7: a call whose transaction reads a complete entry not older than its TTL
\* returns that entry, takes no populating right and changes neither the
\* entry nor the number of catalog requests.
C7_FreshEntryReturned ==
    [][ \A c \in Callers, k \in Seasons :
          ( /\ cpc[c] = "idle"
            /\ Exists(cache[k])
            /\ cache[k].status = "complete"
            /\ now - cache[k].lastUpdated <= TtlMinutes(cache[k], now) )
          => /\ ~(cpc'[c] = "fetch" /\ ckey'[c] = k)
             /\ (cpc'[c] = "done" /\ last'.key = k /\ ~last'.caught)
                  => /\ last'.action = "return_cache"
                     /\ last'.ret = cache[k]
                     /\ cache' = cache
                     /\ fetches' = fetches ]_vars

\* an entry exactly 30 days old was returned from the cache
C7_Witness ==
    /\ last.action = "return_cache"
    /\ last.ret.status = "complete"
    /\ now - last.ret.lastUpdated = Days(DEFAULT_TTL_DAYS)
    /\ fetches[last.key] = 0

\* the step is the transaction of caller c taking the populating right for k
Refreshes(c, k) ==
    cpc[c] = "idle" /\ cpc'[c] = "fetch" /\ ckey'[c] = k

\* the step is caller c being served the stored entry of k
Serves(c, k) ==
    /\ cpc[c] = "idle" /\ cpc'[c] = "done"
    /\ last'.key = k /\ last'.action = "return_cache"

\* the entry of k is complete and its episodes map is not empty
CompleteWithEpisodes(k) ==
    /\ Exists(cache[k])
    /\ cache[k].status = "complete"
    /\ DOMAIN cache[k].episodes # {}

\* some episode has no air date, or the latest of the air dates is within
\* 14 days of t
StatedOngoing(episodes, t) ==
    \/ \E n \in DOMAIN episodes : episodes[n].episodeAirDate = NoAirDate
    \/ t - Max({ episodes[n].episodeAirDate : n \in DOMAIN episodes }) * MinutesPerDay
          <= Days(RECENT_AIR_DATE_DAYS)

\* every episode has an air date more than 14 days before t
StatedArchived(episodes, t) ==
    \A n \in DOMAIN episodes :
        /\ episodes[n].episodeAirDate # NoAirDate
        /\ t - episodes[n].episodeAirDate * MinutesPerDay > Days(RECENT_AIR_DATE_DAYS)

LatestNumberedRecent(episodes, t) ==
    LET latest == episodes[Max(DOMAIN episodes)]
    IN \/ latest.episodeAirDate = NoAirDate
       \/ t - latest.episodeAirDate * MinutesPerDay < Days(RECENT_AIR_DATE_DAYS)

CompleteWithoutEpisodes(k) ==
    /\ Exists(cache[k])
    /\ cache[k].status = "complete"
    /\ DOMAIN cache[k].episodes = {}

\* C13 as stated: a complete entry with an empty episodes map is refreshed by
\* the first call made more than 7 days after lastUpdated
C13_EmptyIsOngoing ==
    [][ \A c \in Callers, k \in Seasons :
          CompleteWithoutEpisodes(k) =>
             /\ Refreshes(c, k) => now - cache[k].lastUpdated > Days(ONGOING_TTL_DAYS)
             /\ Serves(c, k) => now - cache[k].lastUpdated <= Days(ONGOING_TTL_DAYS) ]_vars

\* C13: a complete entry with an empty episodes map is not ongoing: its TTL
\* is 30 days, so it is refreshed by the first call made more than 30 days
\* after lastUpdated
C13_EmptyIsArchived ==
    [][ \A c \in Callers, k \in Seasons :
          CompleteWithoutEpisodes(k) =>
             /\ Refreshes(c, k) => now - cache[k].lastUpdated > Days(DEFAULT_TTL_DAYS)
             /\ Serves(c, k) => now - cache[k].lastUpdated <= Days(DEFAULT_TTL_DAYS) ]_vars

\* an entry without episodes older than 7 days was served from the cache
C13_Witness ==
    /\ last.action = "return_cache"
    /\ DOMAIN last.ret.episodes = {}
    /\ now - last.ret.lastUpdated > Days(ONGOING_TTL_DAYS)

\* the step is a call of c for k returning without the populating right
ReturnsAtOnce(c, k) ==
    cpc[c] = "idle" /\ cpc'[c] = "done" /\ last'.key = k

\* C14: while the entry of a key has status error and lastUpdated less than
\* 5 minutes before now, no call takes the populating right for the key, and
\* every call for it returns null, leaving the entry and the number of
\* catalog requests as they are
C14_ErrorBackoff ==
    [][ \A c \in Callers, k \in Seasons :
          ( /\ Exists(cache[k])
            /\ cache[k].status = "error"
            /\ now - cache[k].lastUpdated < ERROR_TTL_MINUTES )
          => /\ ~Refreshes(c, k)
             /\ ReturnsAtOnce(c, k) =>
                   /\ last'.ret = Null
                   /\ (~last'.caught => last'.action = "skip")
                   /\ cache' = cache
                   /\ fetches' = fetches ]_vars

\* a call was skipped on the entry that a failed fetch left in error four
\* minutes before
C14_Witness ==
    /\ last.key = 1 /\ last.action = "skip" /\ last.ret = Null
    /\ cache[1].status = "error"
    /\ now - cache[1].lastUpdated = ERROR_TTL_MINUTES - 1
    /\ fetches[1] = 1

\* C15: a call whose transaction reads status populating takes no populating
\* right and returns null in that same step, having received nothing from the
\* call that is populating; the entry and the number of catalog requests stay
\* as they are
C15_PopulatingSkips ==
    [][ \A c \in Callers, k \in Seasons :
          (Exists(cache[k]) /\ cache[k].status = "populating")
          => /\ ~Refreshes(c, k)
             /\ ReturnsAtOnce(c, k) =>
                   /\ last'.ret = Null
                   /\ (~last'.caught => last'.action = "skip")
                   /\ cache' = cache
                   /\ fetches' = fetches ]_vars

\* a call was skipped while the call that is populating holds the answer of
\* the catalog and has not yet stored it
C15_Witness ==
    /\ last.action = "skip" /\ last.ret = Null
    /\ cache[last.key].status = "populating"
    /\ \E c \in Callers :
          cpc[c] = "store" /\ ckey[c] = last.key /\ cresp[c] # Null

\* the fresh payload reduced to number -> id, name, air date
Reduced(tmdbSeason) ==
    LET eps == tmdbSeason.episodes
    IN [n \in { eps[i].episode_number : i \in 1..Len(eps) } |->
          LET e == CHOOSE x \in { eps[i] : i \in 1..Len(eps) } : x.episode_number = n
          IN [episodeId |-> e.id, episodeName |-> e.name, episodeAirDate |-> e.air_date]]

\* C16: when the catalog fetch has succeeded and the final write goes through,
\* the entry has the fields status = complete, lastUpdated = now and episodes
\* and no other, its episodes map is the fresh payload reduced (episodes
\* stored before and absent from the payload are gone), and the call returns
\* that entry
C16_SuccessOverwrites ==
    [][ \A c \in Callers :
          (cpc[c] = "store" /\ cresp[c] # Null /\ cpc'[c] = "done" /\ ~last'.caught)
          => /\ DOMAIN cache'[ckey[c]] = {"status", "lastUpdated", "episodes"}
             /\ cache'[ckey[c]].status = "complete"
             /\ cache'[ckey[c]].lastUpdated = now
             /\ cache'[ckey[c]].episodes = Reduced(cresp[c])
             /\ last'.key = ckey[c]
             /\ last'.ret = cache'[ckey[c]] ]_vars

\* a refresh has replaced an entry by the one episode of the fresh payload
C16_Witness ==
    /\ last.action = "fetch" /\ last.key = 1 /\ ~last.caught
    /\ last.ret # Null
    /\ cache[1] = last.ret
    /\ cache[1].status = "complete" /\ cache[1].lastUpdated = now
    /\ DOMAIN cache[1].episodes = {1}
    /\ cache[1].episodes[1].episodeId = 557
    /\ fetches[1] = 1

\* C26: what a call of getSeasonFromCacheOrTMDB gives its caller is null or
\* a cache entry, never an error; it is null when the transaction, the
\* reading of the catalog answer or the final write has failed, and when the
\* catalog request has failed
C26_NeverThrows ==
    [][ \A c \in Callers :
          (cpc[c] # "done" /\ cpc'[c] = "done")
          => /\ last'.ret # Null =>
                   /\ "status" \in DOMAIN last'.ret
                   /\ last'.ret.status = "complete"
             /\ last'.caught => last'.ret = Null
             /\ (cpc[c] = "store" /\ cresp[c] = Null) => last'.ret = Null ]_vars

\* a call has ended in the catch block after the catalog answered, leaving
\* the entry populating, and has returned null
C26_Witness ==
    /\ last.caught /\ last.action = "fetch" /\ last.ret = Null
    /\ fetches[last.key] = 1
    /\ cache[last.key].status = "populating"

\* C31: an entry with status populating, of a key whose entry the calls did
\* not find populating already, has a call between its transaction and its
\* final write; so once every call for the key has returned the entry is
\* not populating
C31_PopulatingHasHolder ==
    \A k \in Seasons :
        (Exists(cache[k]) /\ cache[k].status = "populating" /\ cycle[k] # "closed")
        => \E c \in Callers : cpc[c] \in {"fetch", "store"} /\ ckey[c] = k

\* the step is the transaction of a call of c for k committing
Commits(c, k) ==
    /\ cpc[c] = "idle"
    /\ \/ cpc'[c] = "fetch" /\ ckey'[c] = k
       \/ cpc'[c] = "done" /\ last'.key = k /\ ~last'.caught

\* C32: a call whose transaction reads an entry in error with lastUpdated at
\* least 5 minutes before now takes the populating right, leaving the entry
\* populating; a call that holds the right issues exactly one catalog
\* request, and no request goes out otherwise; while an entry is in error
\* with lastUpdated less than 5 minutes before now, no step issues a catalog
\* request for its key
C32_RetryAfterBackoff ==
    [][ /\ \A c \in Callers, k \in Seasons :
             ( /\ Exists(cache[k])
               /\ cache[k].status = "error"
               /\ now - cache[k].lastUpdated >= ERROR_TTL_MINUTES
               /\ Commits(c, k) )
             => /\ Refreshes(c, k)
                /\ cache'[k].status = "populating"
                /\ fetches' = fetches
        /\ \A c \in Callers :
             (cpc[c] = "fetch" /\ cpc'[c] # "fetch")
             => fetches' = [fetches EXCEPT ![ckey[c]] = @ + 1]
        /\ fetches' # fetches => \E c \in Callers : cpc[c] = "fetch" /\ cpc'[c] # "fetch"
        /\ \A k \in Seasons :
             ( /\ Exists(cache[k])
               /\ cache[k].status = "error"
               /\ now - cache[k].lastUpdated < ERROR_TTL_MINUTES )
             => fetches'[k] = fetches[k] ]_vars

\* a call that found the entry in error exactly 5 minutes old holds the
\* right and has issued its one request
C32_Witness ==
    \E c \in Callers :
        /\ cpc[c] = "store" /\ ckey[c] = 1
        /\ cbefore[c] # Null /\ cbefore[c].status = "error"
        /\ cache[1].status = "populating"
        /\ cache[1].lastUpdated - cbefore[c].lastUpdated = ERROR_TTL_MINUTES
        /\ fetches[1] = 1

\* C36: in the revision without a transaction, no two calls for one key
\* have both issued their catalog request while the other was in flight
C36_OneRequestBetweenTwo ==
    \A c1, c2 \in Callers :
        (c1 # c2 /\ ckey[c1] = ckey[c2] /\ cpc[c1] = "store") => cpc[c2] # "store"

\* C37: a call that returns an entry returns one with status complete: the
\* stored entry, fresh at the time of the transaction, or the entry this
\* call has built from the answer to its own request and written; what an
\* entry in error or being populated holds is not returned
C37_ReturnsOnlyComplete ==
    [][ (last' # last /\ last'.ret # Null)
        => /\ last'.ret.status = "complete"
           /\ \/ /\ last'.action = "return_cache"
                 /\ last'.ret = cache[last'.key]
                 /\ ~isCacheStale(last'.ret, now)
              \/ /\ last'.action = "fetch"
                 /\ \E c \in Callers :
                       /\ cpc[c] = "store" /\ cpc'[c] = "done"
                       /\ ckey[c] = last'.key
                       /\ cresp[c] # Null
                       /\ last'.ret = CompleteWrite(cresp[c], now)
                 /\ cache'[last'.key] = last'.ret ]_vars

\* a call has returned the entry it fetched and stored for key 1
C37_Witness ==
    /\ last.action = "fetch"
    /\ last.ret # Null
    /\ last.key = 1
    /\ cache[1] = last.ret
    /\ \E c \in Callers : cpc[c] = "done"

\* ------------------------------------------------------------------------
\* Episode records and their watchedAt values
\* ------------------------------------------------------------------------
\* the show whose episode document is enriched (the document id, parsed)
ShowId == 100

\* the key "{season}_{episode}" of a record, as the pair its split gives
EpisodeKey(season, episode) == << season, episode >>
\* parseInt(key.split("_")[0], 10) and parseInt(key.split("_")[1], 10)
SeasonOfKey(key) == key[1]
EpisodeOfKey(key) == key[2]

\* a Firestore Timestamp, an epoch number in milliseconds, a string (an ISO
\* date denoting an instant in milliseconds, or text that is no date), null
Timestamp(seconds, nanoseconds) ==
    [type |-> "Timestamp", seconds |-> seconds, nanoseconds |-> nanoseconds]
EpochNumber(ms) == [type |-> "number", value |-> ms]
IsoString(ms) == [type |-> "string", isDate |-> TRUE, millis |-> ms]
TextString(text) == [type |-> "string", isDate |-> FALSE, text |-> text]
NullValue == [type |-> "null"]

\* a variant that reads the number as seconds
TimestampFromSeconds(ms) == Timestamp(ms, 0)

\* Timestamp.fromMillis
TimestampFromMillis(ms) == Timestamp(ms \div 1000, (ms % 1000) * 1000000)

\* !isNaN(new Date(str).getTime()), and the milliseconds it gives
IsValidDate(str) == str.isDate
DateGetTime(str) == str.millis

\* JavaScript truthiness of a watchedAt value
TruthyWatchedAt(w) ==
    CASE w.type = "Timestamp" -> TRUE
      [] w.type = "number" -> w.value # 0
      [] w.type = "string" -> w.isDate \/ w.text # ""
      [] OTHER -> FALSE

\* the field is there and truthy (a number other than 0, a non-empty string,
\* an air date that is not null)
TruthyField(episode, f, falsy) == f \in DOMAIN episode /\ episode[f] # falsy

\* the normalisation of watchedAt done when a record is enriched
NormalizeWatchedAt(w) ==
    IF w.type = "number" THEN TimestampFromMillis(w.value)
    ELSE IF w.type = "string" /\ IsValidDate(w) THEN TimestampFromMillis(DateGetTime(w))
    ELSE w

\* a variant that marks every record it enriches as watched
EnrichRecordMarksWatched(key, episode, seasonCache) ==
    IF EpisodeOfKey(key) \notin DOMAIN seasonCache.episodes THEN episode
    ELSE LET cachedEpisode == seasonCache.episodes[EpisodeOfKey(key)]
         IN MergeSet(episode,
              [watched |-> TRUE,
               watchedAt |-> NormalizeWatchedAt(episode.watchedAt),
               episodeId |-> cachedEpisode.episodeId,
               episodeName |-> cachedEpisode.episodeName,
               episodeAirDate |-> cachedEpisode.episodeAirDate,
               episodeNumber |-> EpisodeOfKey(key),
               seasonNumber |-> SeasonOfKey(key),
               tvShowId |-> ShowId])

\* the body of the loop over the records of one season: the record stored
\* in enrichedEpisodes[key] for the input record `episode`
EnrichRecord(key, episode, seasonCache) ==
    LET watchedAtNeedsNormalization ==
            /\ TruthyWatchedAt(episode.watchedAt)
            /\ episode.watchedAt.type \in {"number", "string"}
        fullyEnriched ==
            /\ TruthyField(episode, "episodeId", 0)
            /\ TruthyField(episode, "episodeName", "")
            /\ TruthyField(episode, "episodeAirDate", NoAirDate)
            /\ TruthyField(episode, "episodeNumber", 0)
            /\ TruthyField(episode, "seasonNumber", 0)
            /\ TruthyField(episode, "tvShowId", 0)
            /\ ~watchedAtNeedsNormalization
        episodeNumber == EpisodeOfKey(key)
    IN IF fullyEnriched THEN episode
       ELSE IF episodeNumber \notin DOMAIN seasonCache.episodes THEN episode
       ELSE LET cachedEpisode == seasonCache.episodes[episodeNumber]
            IN MergeSet(episode,
                 [watchedAt |-> NormalizeWatchedAt(episode.watchedAt),
                  episodeId |-> cachedEpisode.episodeId,
                  episodeName |-> cachedEpisode.episodeName,
                  episodeAirDate |-> cachedEpisode.episodeAirDate,
                  episodeNumber |-> episodeNumber,
                  seasonNumber |-> SeasonOfKey(key),
                  tvShowId |-> ShowId])

\* a variant that stamps the records of a skipped season with the numbers of
\* their key
EnrichSeasonStampsSkipped(enriched, episodes, seasonNumber, seasonCache) ==
    [key \in DOMAIN enriched |->
        IF SeasonOfKey(key) # seasonNumber THEN enriched[key]
        ELSE IF seasonCache = Null
        THEN MergeSet(episodes[key], [episodeNumber |-> EpisodeOfKey(key),
                                      seasonNumber |-> seasonNumber])
        ELSE EnrichRecord(key, episodes[key], seasonCache)]

\* steps 2 and 3 for one season: nothing changes when the cache gave null
EnrichSeason(enriched, episodes, seasonNumber, seasonCache) ==
    IF seasonCache = Null THEN enriched
    ELSE [key \in DOMAIN enriched |->
            IF SeasonOfKey(key) = seasonNumber
            THEN EnrichRecord(key, episodes[key], seasonCache)
            ELSE enriched[key]]

\* the numeric keys of episodesBySeason, in ascending order
RECURSIVE Ascending(_)
Ascending(S) ==
    IF S = {} THEN << >>
    ELSE LET lo == CHOOSE x \in S : \A y \in S : x <= y
         IN << lo >> \o Ascending(S \ {lo})

\* a variant that lists the season of every record, a season once per record
RECURSIVE SeasonNumbersPerRecord(_)
SeasonNumbersPerRecord(episodes) ==
    IF DOMAIN episodes = {} THEN << >>
    ELSE LET lo == CHOOSE x \in DOMAIN episodes :
                      \A y \in DOMAIN episodes : SeasonOfKey(x) <= SeasonOfKey(y)
         IN << SeasonOfKey(lo) >> \o
            SeasonNumbersPerRecord([key \in DOMAIN episodes \ {lo} |-> episodes[key]])

SeasonNumbers(episodes) == Ascending({ SeasonOfKey(key) : key \in DOMAIN episodes })

\* ------------------------------------------------------------------------
\* POST /api/trakt/enrich with includeEpisodes, for the document of show 100;
\* its cache calls are those of caller 1
\* ------------------------------------------------------------------------
Enricher == 1

\* episodeTrackingRef.get(): the snapshot the endpoint works on, and the
\* start of enrichEpisodeTracking (step 1, grouping by season)
EndpointRead ==
    /\ epc = "start"
    /\ einput' = userEpisodes
    /\ eout' = userEpisodes
    /\ erest' = SeasonNumbers(userEpisodes)
    /\ epc' = IF DOMAIN userEpisodes = {} THEN "finished" ELSE "loop"
    /\ UNCHANGED << userEpisodes, ecalls, written >>
    /\ UNCHANGED cacheVars

\* getSeasonFromCacheOrTMDB(showId, seasonNumber) for the next season
EnrichCallsCache ==
    /\ epc = "loop"
    /\ erest # << >>
    /\ cpc[Enricher] = "idle"
    /\ \/ RunTransaction(Enricher, Head(erest))
       \/ TransactionThrows(Enricher, Head(erest))
    /\ ecalls' = [ecalls EXCEPT ![Head(erest)] = @ + 1]
    /\ UNCHANGED << userEpisodes, epc, einput, eout, erest, written >>

\* the catalog request and the final write of that call
EnrichCacheFetches ==
    /\ epc = "loop"
    /\ FetchSeasonFromTMDB(Enricher) \/ FetchBodyThrows(Enricher)
    /\ UNCHANGED enrichVars

EnrichCacheStores ==
    /\ epc = "loop"
    /\ StoreResult(Enricher) \/ StoreThrows(Enricher)
    /\ UNCHANGED enrichVars

\* the call has returned: step 3 for this season, then the next season, or
\* the return of enrichedEpisodes after the last one
EnrichApply ==
    /\ epc = "loop"
    /\ cpc[Enricher] = "done"
    /\ eout' = EnrichSeason(eout, einput, Head(erest), last.ret)
    /\ erest' = Tail(erest)
    /\ epc' = IF Tail(erest) = << >> THEN "returned" ELSE "loop"
    /\ cpc' = [cpc EXCEPT ![Enricher] = "idle"]
    /\ UNCHANGED << userEpisodes, einput, ecalls, written >>
    /\ UNCHANGED << now, cache, fetches, ckey, cbefore, cresp, last, cycle >>

\* doc.ref.update({episodes: enrichedEpisodes, ...}): the whole map is replaced
EndpointWriteBack ==
    /\ epc = "returned"
    /\ userEpisodes' = eout
    /\ epc' = "finished"
    /\ UNCHANGED << einput, eout, erest, ecalls, written >>
    /\ UNCHANGED cacheVars

\* the update rejects: caught and logged by the endpoint
EndpointWriteThrows ==
    /\ epc = "returned"
    /\ epc' = "finished"
    /\ UNCHANGED << userEpisodes, einput, eout, erest, ecalls, written >>
    /\ UNCHANGED cacheVars

\* another writer of the document (a sync run's merge write of the episode,
\* the client marking an episode) stores a new watched flag and timestamp
\* for one record
WatchedAtOfWriter == Timestamp(9, 0)

OtherWriter ==
    /\ written = << >>
    /\ \E key \in DOMAIN userEpisodes :
          LET rec == MergeSet(userEpisodes[key],
                        [watched |-> ~userEpisodes[key].watched,
                         watchedAt |-> WatchedAtOfWriter])
          IN /\ userEpisodes' = [userEpisodes EXCEPT ![key] = rec]
             /\ written' = [key |-> key, watched |-> rec.watched,
                            watchedAt |-> rec.watchedAt]
    /\ UNCHANGED << epc, einput, eout, erest, ecalls >>
    /\ UNCHANGED cacheVars

\* ------------------------------------------------------------------------
\* Initial states of the enrichment: stored episode maps and cache documents
\* ------------------------------------------------------------------------
Enriched(key, rec) ==
    MergeSet(rec,
        [episodeId |-> 700 + EpisodeOfKey(key),
         episodeName |-> "Old name",
         episodeAirDate |-> 5,
         episodeNumber |-> EpisodeOfKey(key),
         seasonNumber |-> SeasonOfKey(key),
         tvShowId |-> ShowId])

BareRecords ==
    { [watched |-> TRUE, watchedAt |-> Timestamp(1, 500000000)],
      [watched |-> FALSE, watchedAt |-> NullValue],
      [watched |-> TRUE, watchedAt |-> EpochNumber(1500)],
      [watched |-> TRUE, watchedAt |-> IsoString(2500)],
      [watched |-> TRUE, watchedAt |-> TextString("yesterday")] }

RecordsFor(key) ==
    BareRecords \cup
    { Enriched(key, [watched |-> TRUE, watchedAt |-> w]) :
        w \in {Timestamp(1, 500000000), EpochNumber(1500), IsoString(2500)} }

KeySets ==
    { {EpisodeKey(1, 1), EpisodeKey(1, 2)},
      {EpisodeKey(0, 1), EpisodeKey(1, 0)} }

InputMaps ==
    UNION { { m \in [K -> UNION { RecordsFor(key) : key \in K }] :
                \A key \in K : m[key] \in RecordsFor(key) } : K \in KeySets }

\* cache documents met by the enrichment: none, a fresh entry with episodes
\* 0..2, a fresh entry with episode 1 only, an entry being populated, an
\* entry in error backoff
EnrichInitDocs ==
    { Null,
      CompleteWrite(TmdbSeason(1, << TmdbEpisode(0, 554, "Prologue", 9),
                                     TmdbEpisode(1, 555, "Pilot", 10),
                                     TmdbEpisode(2, 556, "Second", 17) >>), T0),
      CompleteWrite(TmdbSeason(1, << TmdbEpisode(1, 557, "Premiere", 10) >>), T0),
      AcquireWrite(Null, T0),
      ErrorWrite(AcquireWrite(Null, T0), T0) }

EnrichInit ==
    /\ now = T0
    /\ cache \in [Seasons -> EnrichInitDocs]
    /\ fetches = [k \in Seasons |-> 0]
    /\ cpc = [c \in Callers |-> "idle"]
    /\ ckey = [c \in Callers |-> 0]
    /\ cbefore = [c \in Callers |-> Null]
    /\ cresp = [c \in Callers |-> Null]
    /\ last = NoCall
    /\ cycle = [k \in Seasons |-> IF Eligible(cache[k], T0) THEN "open" ELSE "closed"]
    /\ userEpisodes \in InputMaps
    /\ epc = "start"
    /\ einput = << >>
    /\ eout = << >>
    /\ erest = << >>
    /\ ecalls = [k \in Seasons |-> 0]
    /\ written = << >>
    /\ SyncIdle
    /\ StoreIdle

EnrichNext ==
    \/ EndpointRead /\ UNCHANGED << syncVars, storeVars >>
    \/ EnrichCallsCache /\ UNCHANGED << syncVars, storeVars >>
    \/ EnrichCacheFetches /\ UNCHANGED << syncVars, storeVars >>
    \/ EnrichCacheStores /\ UNCHANGED << syncVars, storeVars >>
    \/ EnrichApply /\ UNCHANGED << syncVars, storeVars >>
    \/ EndpointWriteBack /\ UNCHANGED << syncVars, storeVars >>
    \/ EndpointWriteThrows /\ UNCHANGED << syncVars, storeVars >>
    \/ OtherWriter /\ UNCHANGED << syncVars, storeVars >>

SpecEnrich == EnrichInit /\ [][EnrichNext]_vars

\* ------------------------------------------------------------------------
\* Properties of the enrichment
\* ------------------------------------------------------------------------
\* whether a watchedAt value denotes an instant, and that instant in
\* milliseconds since the epoch
DenotesInstant(w) ==
    w.type \in {"Timestamp", "number"} \/ (w.type = "string" /\ w.isDate)

InstantMs(w) ==
    CASE w.type = "Timestamp" -> w.seconds * 1000 + w.nanoseconds \div 1000000
      [] w.type = "number" -> w.value
      [] OTHER -> w.millis

SameInstant(a, b) ==
    IF DenotesInstant(a) /\ DenotesInstant(b) THEN InstantMs(a) = InstantMs(b)
    ELSE a = b

\* C5: at every point of enrichEpisodeTracking, and in the map it returns,
\* each record has the watched flag of the input record with the same key
\* and a watchedAt denoting the same instant; no key is added or lost.
C5_WatchedFieldsKept ==
    epc \in {"loop", "returned", "finished"} =>
        /\ DOMAIN eout = DOMAIN einput
        /\ \A key \in DOMAIN einput :
              /\ eout[key].watched = einput[key].watched
              /\ SameInstant(eout[key].watchedAt, einput[key].watchedAt)

\* a record with an epoch number came back enriched, its watchedAt a Timestamp
C5_Witness ==
    /\ epc = "returned"
    /\ \E key \in DOMAIN einput :
          /\ einput[key].watchedAt.type = "number"
          /\ eout[key].watchedAt.type = "Timestamp"
          /\ "episodeName" \notin DOMAIN einput[key]
          /\ "episodeName" \in DOMAIN eout[key]

\* C6: once the endpoint's pass and the other writer have both finished, the
\* record the other writer stored still has the writer's watched flag and
\* watched timestamp.
C6_WriterValueSurvives ==
    (epc = "finished" /\ written # << >>) =>
        /\ userEpisodes[written.key].watched = written.watched
        /\ userEpisodes[written.key].watchedAt = written.watchedAt

\* the step is enrichEpisodeTracking going on after the cache call for the
\* season at the head of its list has returned
AfterCacheCall == epc = "loop" /\ cpc[Enricher] = "done" /\ erest' = Tail(erest)

\* the records of enriched whose key is of the season
OfSeason(enriched, seasonNumber) ==
    [key \in { x \in DOMAIN enriched : SeasonOfKey(x) = seasonNumber } |-> enriched[key]]

\* C22: when the cache call for a season has returned null, the records of
\* that season are as in the input, those of the other seasons stay as the
\* loop had left them, and the function goes on to the next season or
\* returns; a season for which the call returned an entry has its bare
\* records with a cached episode enriched from it
C22_SkipLeavesRecords ==
    [][ AfterCacheCall =>
          LET s == Head(erest)
          IN /\ epc' \in {"loop", "returned"}
             /\ DOMAIN eout' = DOMAIN einput
             /\ \A key \in DOMAIN einput :
                   SeasonOfKey(key) # s => eout'[key] = eout[key]
             /\ last.ret = Null => OfSeason(eout', s) = OfSeason(einput, s)
             /\ last.ret # Null =>
                   \A key \in DOMAIN OfSeason(einput, s) :
                      ( /\ "episodeName" \notin DOMAIN einput[key]
                        /\ EpisodeOfKey(key) \in DOMAIN last.ret.episodes )
                      => /\ "episodeName" \in DOMAIN eout'[key]
                         /\ eout'[key].episodeName =
                               last.ret.episodes[EpisodeOfKey(key)].episodeName ]_vars

\* the function has returned after season 0 was skipped and season 1 was
\* served: the record of season 0 is the input record, that of season 1 has
\* gained its name
C22_Witness ==
    /\ epc = "returned"
    /\ DOMAIN einput = {EpisodeKey(0, 1), EpisodeKey(1, 0)}
    /\ Exists(cache[0]) /\ cache[0].status \in {"populating", "error"}
    /\ eout[EpisodeKey(0, 1)] = einput[EpisodeKey(0, 1)]
    /\ "episodeName" \notin DOMAIN einput[EpisodeKey(0, 1)]
    /\ "episodeName" \notin DOMAIN einput[EpisodeKey(1, 0)]
    /\ "episodeName" \in DOMAIN eout[EpisodeKey(1, 0)]

\* the record has every metadata field and its watchedAt is a Timestamp
FullyEnrichedAsStated(episode) ==
    /\ {"episodeId", "episodeName", "episodeAirDate", "episodeNumber",
        "seasonNumber", "tvShowId"} \subseteq DOMAIN episode
    /\ episode.episodeAirDate # NoAirDate
    /\ episode.watchedAt.type = "Timestamp"

\* C23: a record that has every metadata field, the season or episode number
\* 0 included, and a Timestamp as watchedAt is returned as it was in the
\* input, whatever the cache holds for its episode
C23_EnrichedUntouched ==
    [][ AfterCacheCall =>
          \A key \in DOMAIN einput :
             FullyEnrichedAsStated(einput[key]) => eout'[key] = einput[key] ]_vars

\* the record has every metadata field
HasMetadata(episode) ==
    /\ {"episodeId", "episodeName", "episodeAirDate", "episodeNumber",
        "seasonNumber", "tvShowId"} \subseteq DOMAIN episode
    /\ episode.episodeAirDate # NoAirDate

\* watchedAt is an epoch number or a string that is an ISO date
EpochOrIso(w) == w.type = "number" \/ (w.type = "string" /\ w.isDate)

\* C24: when the cache call for a season has returned an entry, every record
\* of the season that has every metadata field and whose watchedAt is an
\* epoch number or an ISO string is returned with a Timestamp denoting the
\* same instant
C24_TimestampNormalized ==
    [][ (AfterCacheCall /\ last.ret # Null) =>
          \A key \in DOMAIN OfSeason(einput, Head(erest)) :
             (HasMetadata(einput[key]) /\ EpochOrIso(einput[key].watchedAt))
             => /\ eout'[key].watchedAt.type = "Timestamp"
                /\ SameInstant(eout'[key].watchedAt, einput[key].watchedAt) ]_vars

\* C25: in one enrichEpisodeTracking call no season sees a second cache call
\* or a second catalog request, a catalog request goes out only within a
\* cache call, and when the function has returned the cache has been called
\* once for each season found in the record keys and for no other
C25_OncePerSeason ==
    /\ \A k \in Seasons : ecalls[k] <= 1 /\ fetches[k] <= ecalls[k]
    /\ epc \in {"returned", "finished"} =>
          \A k \in Seasons :
             ecalls[k] = IF \E key \in DOMAIN einput : SeasonOfKey(key) = k
                         THEN 1 ELSE 0

\* the function has returned for two records of season 1 after one cache
\* call and one catalog request
C25_Witness ==
    /\ epc = "returned"
    /\ DOMAIN einput = {EpisodeKey(1, 1), EpisodeKey(1, 2)}
    /\ ecalls = [k \in Seasons |-> IF k = 1 THEN 1 ELSE 0]
    /\ fetches[1] = 1
    /\ "episodeName" \in DOMAIN eout[EpisodeKey(1, 1)]
    /\ "episodeName" \in DOMAIN eout[EpisodeKey(1, 2)]

\* the records of the scenario: 1_1 watched, 1_2 not watched, neither
\* enriched
ScenarioRecords ==
    [key \in {EpisodeKey(1, 1), EpisodeKey(1, 2)} |->
        IF key = EpisodeKey(1, 1)
        THEN [watched |-> TRUE, watchedAt |-> Timestamp(1, 500000000)]
        ELSE [watched |-> FALSE, watchedAt |-> NullValue]]

\* the scenario has run: the entry of season 1 was missing at the start, the
\* call for it fetched, the catalog answered with two episodes and the entry
\* was stored
ScenarioRan ==
    /\ epc = "returned"
    /\ einput = ScenarioRecords
    /\ cycle[1] = "taken"
    /\ last.key = 1 /\ last.action = "fetch" /\ ~last.caught
    /\ last.ret # Null
    /\ DOMAIN last.ret.episodes = {1, 2}

\* C29: in the scenario one catalog request has gone out, for season 1;
\* record 1_1 has gained 555, Pilot and its air date and is still watched,
\* record 1_2 has gained 556, Second and its air date and is still not
\* watched; the entry of season 1 is complete with a TTL of 30 days (the air
\* dates, days 10 and 17, are 2020-01-01 and 2020-01-08, more than 14 days
\* before now)
C29_Scenario ==
    ScenarioRan =>
        /\ fetches = [k \in Seasons |-> IF k = 1 THEN 1 ELSE 0]
        /\ ecalls = [k \in Seasons |-> IF k = 1 THEN 1 ELSE 0]
        /\ eout[EpisodeKey(1, 1)] =
              [watched |-> TRUE, watchedAt |-> Timestamp(1, 500000000),
               episodeId |-> 555, episodeName |-> "Pilot", episodeAirDate |-> 10,
               episodeNumber |-> 1, seasonNumber |-> 1, tvShowId |-> 100]
        /\ eout[EpisodeKey(1, 2)] =
              [watched |-> FALSE, watchedAt |-> NullValue,
               episodeId |-> 556, episodeName |-> "Second", episodeAirDate |-> 17,
               episodeNumber |-> 2, seasonNumber |-> 1, tvShowId |-> 100]
        /\ cache[1].status = "complete"
        /\ cache[1].lastUpdated = now
        /\ ~isCacheStale(cache[1], now + Days(DEFAULT_TTL_DAYS))
        /\ isCacheStale(cache[1], now + Days(DEFAULT_TTL_DAYS) + 1)

\* the scenario has run and both records carry the name of their episode
C29_Witness ==
    /\ ScenarioRan
    /\ eout[EpisodeKey(1, 1)].episodeName = "Pilot"
    /\ eout[EpisodeKey(1, 2)].episodeName = "Second"
    /\ cache[1].status = "complete"


\* ------------------------------------------------------------------------
\* The sync trigger (POST /api/trakt/sync) and the run it dispatches
\* (syncTraktData), for one user
\* ------------------------------------------------------------------------
REFRESH_WINDOW_MINUTES == 60

NumTriggers == 2
MaxItems == 2

Triggers == 1..NumTriggers
Collections == 1..6
ResponseSizes == 0..MaxItems

\* the label of a collection in the error message of its catch block
CollectionLabel(i) ==
    CASE i = 1 -> "watched movies"
      [] i = 2 -> "watched shows"
      [] i = 3 -> "ratings"
      [] i = 4 -> "watchlist"
      [] i = 5 -> "favorites"
      [] i = 6 -> "custom lists"

\* const itemsSynced = { movies: 0, ... }
ZeroItems ==
    [movies |-> 0, shows |-> 0, episodes |-> 0, ratings |-> 0,
     lists |-> 0, favorites |-> 0, watchlistItems |-> 0]

\* a watched show of the modelled responses carries two watched episodes
EpisodesOfShows(n) == n + n

\* the assignments to itemsSynced after the sync function of collection i
\* returned count
ItemsAfter(items, i, count) ==
    CASE i = 1 -> [items EXCEPT !.movies = count]
      [] i = 2 -> [items EXCEPT !.shows = count, !.episodes = EpisodesOfShows(count)]
      [] i = 3 -> [items EXCEPT !.ratings = count]
      [] i = 4 -> [items EXCEPT !.watchlistItems = count]
      [] i = 5 -> [items EXCEPT !.favorites = count]
      [] i = 6 -> [items EXCEPT !.lists = count]

\* errors.push(`Failed to sync <label>: ${error}`); cause tells a failed
\* source request from a failed store write
FailedToSync(i, cause) == << "Failed to sync", CollectionLabel(i), cause >>

FatalSyncError(cause) == << "Fatal sync error", cause >>

\* the document written by updateSyncStatus, the errors field being there
\* only when errors is non-empty
SyncStatusDoc(status, itemsSynced, errors, t) ==
    LET syncStatus == [userId |-> "u1", lastSyncedAt |-> t,
                       status |-> status, itemsSynced |-> itemsSynced]
    IN  IF Len(errors) > 0
        THEN MergeSet(syncStatus, [errors |-> errors])
        ELSE syncStatus

\* db.collection("users").doc(userId).update({traktSyncStatus: syncStatus})
updateSyncStatus(doc, status, itemsSynced, errors, t) ==
    MergeSet(doc, [traktSyncStatus |-> SyncStatusDoc(status, itemsSynced, errors, t)])

\* userData.traktSyncStatus?.status of a snapshot, "" when there is none
StatusOf(doc) ==
    IF "traktSyncStatus" \in DOMAIN doc THEN doc.traktSyncStatus.status ELSE ""

\* tokenExpiresAt && tokenExpiresAt - now < 3600000
NeedsRefresh(userData, t) ==
    /\ "traktTokenExpiresAt" \in DOMAIN userData
    /\ userData.traktTokenExpiresAt - t < REFRESH_WINDOW_MINUTES

\* the tokens the source service hands out for a refresh token
RefreshedTokens(refreshToken, t) ==
    [access_token |-> refreshToken + 1,
     refresh_token |-> refreshToken + 1,
     expiresAt |-> t + Days(90)]

\* the run of trigger r has been dispatched and has not returned
InFlight(r) == rpc[r] \notin {"none", "ended", "rejected"}

\* the run of trigger r awaits the answer of a request to the source service
Pulling(r) == rpc[r] \in {"profile", "fetch"}


\* ---- the trigger -------------------------------------------------------
Answer(t, code) ==
    /\ tpc' = [tpc EXCEPT ![t] = "done"]
    /\ tresp' = [tresp EXCEPT ![t] = code]

\* the check of the status is left out
DispatchUnchecked(t, userData, accessToken) ==
    /\ Answer(t, 202)
    /\ rpc' = [rpc EXCEPT ![t] = "setInProgress"]
    /\ rtoken' = [rtoken EXCEPT ![t] = accessToken]
    /\ UNCHANGED << rcol, rresp, ritems, rerrors >>

\* the check of the status read in userData, then syncTraktData(userId,
\* accessToken) without awaiting it: the run goes as far as issuing its first
\* status write
CheckAndDispatch(t, userData, accessToken) ==
    IF StatusOf(userData) = "in_progress"
    THEN /\ Answer(t, 409)
         /\ UNCHANGED runVars
    ELSE /\ Answer(t, 202)
         /\ rpc' = [rpc EXCEPT ![t] = "setInProgress"]
         /\ rtoken' = [rtoken EXCEPT ![t] = accessToken]
         /\ UNCHANGED << rcol, rresp, ritems, rerrors >>

\* the user document arrives; without a refresh the handler runs to its
\* response
TriggerRead(t) ==
    /\ tpc[t] = "start"
    /\ tdata' = [tdata EXCEPT ![t] = user]
    /\ IF ~Exists(user)
       THEN Answer(t, 404) /\ UNCHANGED << ttoken, runVars >>
       ELSE IF ~user.traktConnected \/ "traktAccessToken" \notin DOMAIN user
       THEN Answer(t, 400) /\ UNCHANGED << ttoken, runVars >>
       ELSE /\ ttoken' = [ttoken EXCEPT ![t] = user.traktAccessToken]
            /\ IF NeedsRefresh(user, now)
               THEN /\ tpc' = [tpc EXCEPT ![t] = "refreshing"]
                    /\ UNCHANGED << tresp, runVars >>
               ELSE CheckAndDispatch(t, user, user.traktAccessToken)
    /\ UNCHANGED << user, tnew >>

\* the read of the user document throws: the outer catch
TriggerReadThrows(t) ==
    /\ tpc[t] = "start"
    /\ Answer(t, 500)
    /\ UNCHANGED << user, tdata, ttoken, tnew, runVars >>

\* refreshAccessToken returns; the token update is issued
TriggerRefreshed(t) ==
    /\ tpc[t] = "refreshing"
    /\ tnew' = [tnew EXCEPT ![t] = RefreshedTokens(tdata[t].traktRefreshToken, now)]
    /\ ttoken' = [ttoken EXCEPT ![t] = tnew'[t].access_token]
    /\ tpc' = [tpc EXCEPT ![t] = "saving"]
    /\ UNCHANGED << user, tdata, tresp, runVars >>

\* refreshAccessToken throws
TriggerRefreshFails(t) ==
    /\ tpc[t] = "refreshing"
    /\ Answer(t, 401)
    /\ UNCHANGED << user, tdata, ttoken, tnew, runVars >>

\* a variant that dispatches the run with the token read from the store
TriggerSavesTokensStaleToken(t) ==
    /\ tpc[t] = "saving"
    /\ user' = MergeSet(user, [traktAccessToken |-> tnew[t].access_token,
                               traktRefreshToken |-> tnew[t].refresh_token,
                               traktTokenExpiresAt |-> tnew[t].expiresAt])
    /\ CheckAndDispatch(t, tdata[t], tdata[t].traktAccessToken)
    /\ UNCHANGED << tdata, ttoken, tnew >>

\* a variant whose token update also clears the status
TriggerSavesTokensClearsStatus(t) ==
    /\ tpc[t] = "saving"
    /\ user' = MergeSet(user, [traktAccessToken |-> tnew[t].access_token,
                               traktRefreshToken |-> tnew[t].refresh_token,
                               traktTokenExpiresAt |-> tnew[t].expiresAt,
                               traktSyncStatus |-> SyncStatusDoc("idle", ZeroItems, << >>, now)])
    /\ CheckAndDispatch(t, tdata[t], ttoken[t])
    /\ UNCHANGED << tdata, ttoken, tnew >>

\* the token update lands; the handler runs to its response
TriggerSavesTokens(t) ==
    /\ tpc[t] = "saving"
    /\ user' = MergeSet(user, [traktAccessToken |-> tnew[t].access_token,
                               traktRefreshToken |-> tnew[t].refresh_token,
                               traktTokenExpiresAt |-> tnew[t].expiresAt])
    /\ CheckAndDispatch(t, tdata[t], ttoken[t])
    /\ UNCHANGED << tdata, ttoken, tnew >>

\* the token update throws
TriggerSaveThrows(t) ==
    /\ tpc[t] = "saving"
    /\ Answer(t, 401)
    /\ UNCHANGED << user, tdata, ttoken, tnew, runVars >>

\* ---- the run -----------------------------------------------------------
\* the catch of syncTraktData: the error is recorded and the failed status
\* write issued
Fatal(r, cause) ==
    /\ rerrors' = [rerrors EXCEPT ![r] = Append(@, FatalSyncError(cause))]
    /\ rpc' = [rpc EXCEPT ![r] = "fatalWrite"]

\* after collection rcol[r], whose response goes out of scope: the request
\* of the next one, or the final status write
NextCollection(r) ==
    IF rcol[r] < 6
    THEN /\ rcol' = [rcol EXCEPT ![r] = @ + 1]
         /\ rpc' = [rpc EXCEPT ![r] = "fetch"]
         /\ rresp' = [rresp EXCEPT ![r] = 0]
    ELSE /\ rpc' = [rpc EXCEPT ![r] = "finalWrite"]
         /\ rresp' = [rresp EXCEPT ![r] = 0]
         /\ UNCHANGED rcol

\* the run goes on to its first request without its status write
RunSetsInProgressLate(r) ==
    /\ rpc[r] = "setInProgress"
    /\ rpc' = [rpc EXCEPT ![r] = "profile"]
    /\ UNCHANGED << user, rcol, rresp, rtoken, ritems, rerrors, triggerVars >>

\* await updateSyncStatus(userId, "in_progress", itemsSynced) lands;
\* getUserProfile is issued
RunSetsInProgress(r) ==
    /\ rpc[r] = "setInProgress"
    /\ user' = updateSyncStatus(user, "in_progress", ritems[r], << >>, now)
    /\ rpc' = [rpc EXCEPT ![r] = "profile"]
    /\ UNCHANGED << rcol, rresp, rtoken, ritems, rerrors, triggerVars >>

RunSetInProgressThrows(r) ==
    /\ rpc[r] = "setInProgress"
    /\ Fatal(r, "store")
    /\ UNCHANGED << user, rcol, rresp, rtoken, ritems, triggerVars >>

\* getUserProfile returns; the request of the first collection is issued
RunProfileReturns(r) ==
    /\ rpc[r] = "profile"
    /\ rcol' = [rcol EXCEPT ![r] = 1]
    /\ rpc' = [rpc EXCEPT ![r] = "fetch"]
    /\ UNCHANGED << user, rresp, rtoken, ritems, rerrors, triggerVars >>

\* the failed profile request is taken for the failure of a collection
RunProfileThrowsContinues(r) ==
    /\ rpc[r] = "profile"
    /\ rerrors' = [rerrors EXCEPT ![r] = Append(@, FatalSyncError("upstream"))]
    /\ rcol' = [rcol EXCEPT ![r] = 1]
    /\ rpc' = [rpc EXCEPT ![r] = "fetch"]
    /\ UNCHANGED << user, rresp, rtoken, ritems, triggerVars >>

RunProfileThrows(r) ==
    /\ rpc[r] = "profile"
    /\ Fatal(r, "upstream")
    /\ UNCHANGED << user, rcol, rresp, rtoken, ritems, triggerVars >>

\* the request of collection rcol[r] returns n records that carry a catalog
\* id; the sync function of the collection starts
RunFetchReturns(r, n) ==
    /\ rpc[r] = "fetch"
    /\ rresp' = [rresp EXCEPT ![r] = n]
    /\ rpc' = [rpc EXCEPT ![r] = "store"]
    /\ UNCHANGED << user, rcol, rtoken, ritems, rerrors, triggerVars >>

\* the failed request ends the collections: the catch of syncTraktData
RunFetchThrowsAborts(r) ==
    /\ rpc[r] = "fetch"
    /\ Fatal(r, "upstream")
    /\ UNCHANGED << user, rcol, rresp, rtoken, ritems, triggerVars >>

\* a variant that puts the error at the head of the list
RunFetchThrowsPrepends(r) ==
    /\ rpc[r] = "fetch"
    /\ rerrors' = [rerrors EXCEPT ![r] = << FailedToSync(rcol[r], "upstream") >> \o @]
    /\ NextCollection(r)
    /\ UNCHANGED << user, rtoken, ritems, triggerVars >>

\* the request of collection rcol[r] throws: the catch block of the
\* collection
RunFetchThrows(r) ==
    /\ rpc[r] = "fetch"
    /\ rerrors' = [rerrors EXCEPT ![r] = Append(@, FailedToSync(rcol[r], "upstream"))]
    /\ NextCollection(r)
    /\ UNCHANGED << user, rtoken, ritems, triggerVars >>

\* the write of the sync function throws (there is a write only when the
\* count is positive); syncCustomLists catches the failures of its lists
RunStoreThrows(r) ==
    /\ rpc[r] = "store"
    /\ rresp[r] > 0
    /\ rcol[r] # 6
    /\ rerrors' = [rerrors EXCEPT ![r] = Append(@, FailedToSync(rcol[r], "store"))]
    /\ NextCollection(r)
    /\ UNCHANGED << user, rtoken, ritems, triggerVars >>

\* the sync function returns its count; of the custom lists, lost failed
\* and were skipped by the catch in the loop
RunStoreReturns(r, lost) ==
    /\ rpc[r] = "store"
    /\ lost <= rresp[r]
    /\ lost > 0 => rcol[r] = 6
    /\ ritems' = [ritems EXCEPT ![r] = ItemsAfter(@, rcol[r], rresp[r] - lost)]
    /\ NextCollection(r)
    /\ UNCHANGED << user, rtoken, rerrors, triggerVars >>

\* the final status is completed whatever the errors
FinalStatusCompleted(errors) == "completed"

\* errors.length > 0 ? "failed" : "completed"
FinalStatus(errors) ==
    IF Len(errors) > 0 THEN "failed" ELSE "completed"

\* the final updateSyncStatus lands and the run returns its result
RunFinalWrite(r) ==
    /\ rpc[r] = "finalWrite"
    /\ user' = updateSyncStatus(user, FinalStatus(rerrors[r]), ritems[r], rerrors[r], now)
    /\ rpc' = [rpc EXCEPT ![r] = "ended"]
    /\ UNCHANGED << rcol, rresp, rtoken, ritems, rerrors, triggerVars >>

\* the final updateSyncStatus throws: the catch of syncTraktData
RunFinalWriteThrows(r) ==
    /\ rpc[r] = "finalWrite"
    /\ Fatal(r, "store")
    /\ UNCHANGED << user, rcol, rresp, rtoken, ritems, triggerVars >>

\* the catch returns its result without writing the status
RunFatalWriteSkipped(r) ==
    /\ rpc[r] = "fatalWrite"
    /\ rpc' = [rpc EXCEPT ![r] = "ended"]
    /\ UNCHANGED << user, rcol, rresp, rtoken, ritems, rerrors, triggerVars >>

\* updateSyncStatus(userId, "failed", itemsSynced, errors) of the catch lands
RunFatalWrite(r) ==
    /\ rpc[r] = "fatalWrite"
    /\ user' = updateSyncStatus(user, "failed", ritems[r], rerrors[r], now)
    /\ rpc' = [rpc EXCEPT ![r] = "ended"]
    /\ UNCHANGED << rcol, rresp, rtoken, ritems, rerrors, triggerVars >>

\* the status write of the catch throws: syncTraktData rejects
RunFatalWriteThrows(r) ==
    /\ rpc[r] = "fatalWrite"
    /\ rpc' = [rpc EXCEPT ![r] = "rejected"]
    /\ UNCHANGED << user, rcol, rresp, rtoken, ritems, rerrors, triggerVars >>

\* ---- specifications ----------------------------------------------------
\* the user documents a trigger can meet: none, a disconnected user, and a
\* connected user whose token expires inside or at the edge of the refresh
\* window, with each status a run can have left
ConnectedUsers ==
    { MergeSet([traktConnected |-> TRUE, traktAccessToken |-> 1,
                traktRefreshToken |-> 1, traktTokenExpiresAt |-> T0 + left],
               st) :
        left \in {REFRESH_WINDOW_MINUTES - 1, REFRESH_WINDOW_MINUTES},
        st \in {Null}
               \cup { [traktSyncStatus |-> SyncStatusDoc(status, ZeroItems, << >>, T0 - 1)] :
                        status \in {"in_progress", "completed"} }
               \cup { [traktSyncStatus |->
                         SyncStatusDoc("failed", ZeroItems,
                                       << FailedToSync(3, "upstream") >>, T0 - 1)] } }

UserDocs == {Null, [traktConnected |-> FALSE]} \cup ConnectedUsers

\* the season cache is not in use
CacheIdle ==
    /\ now = T0
    /\ cache = [k \in Seasons |-> Null]
    /\ fetches = [k \in Seasons |-> 0]
    /\ cpc = [c \in Callers |-> "idle"]
    /\ ckey = [c \in Callers |-> 0]
    /\ cbefore = [c \in Callers |-> Null]
    /\ cresp = [c \in Callers |-> Null]
    /\ last = NoCall
    /\ cycle = [k \in Seasons |-> "open"]

SyncInit ==
    /\ CacheIdle
    /\ EnrichIdle
    /\ user \in UserDocs
    /\ tpc = [t \in Triggers |-> "start"]
    /\ tdata = [t \in Triggers |-> Null]
    /\ ttoken = [t \in Triggers |-> 0]
    /\ tnew = [t \in Triggers |-> Null]
    /\ tresp = [t \in Triggers |-> 0]
    /\ rpc = [t \in Triggers |-> "none"]
    /\ rcol = [t \in Triggers |-> 0]
    /\ rresp = [t \in Triggers |-> 0]
    /\ rtoken = [t \in Triggers |-> 0]
    /\ ritems = [t \in Triggers |-> ZeroItems]
    /\ rerrors = [t \in Triggers |-> << >>]
    /\ dpc = "none"
    /\ StoreIdle

\* one trigger and its run, every request and every write of the run free
\* to fail
RunNext ==
    \/ TriggerRead(1) /\ UNCHANGED << cacheVars, enrichVars, storeVars, dpc >>
    \/ TriggerReadThrows(1) /\ UNCHANGED << cacheVars, enrichVars, storeVars, dpc >>
    \/ TriggerRefreshed(1) /\ UNCHANGED << cacheVars, enrichVars, storeVars, dpc >>
    \/ TriggerRefreshFails(1) /\ UNCHANGED << cacheVars, enrichVars, storeVars, dpc >>
    \/ TriggerSavesTokens(1) /\ UNCHANGED << cacheVars, enrichVars, storeVars, dpc >>
    \/ TriggerSaveThrows(1) /\ UNCHANGED << cacheVars, enrichVars, storeVars, dpc >>
    \/ RunSetsInProgress(1) /\ UNCHANGED << cacheVars, enrichVars, storeVars, dpc >>
    \/ RunSetInProgressThrows(1) /\ UNCHANGED << cacheVars, enrichVars, storeVars, dpc >>
    \/ RunProfileReturns(1) /\ UNCHANGED << cacheVars, enrichVars, storeVars, dpc >>
    \/ RunProfileThrows(1) /\ UNCHANGED << cacheVars, enrichVars, storeVars, dpc >>
    \/ \E n \in ResponseSizes : RunFetchReturns(1, n) /\ UNCHANGED << cacheVars, enrichVars, storeVars, dpc >>
    \/ RunFetchThrows(1) /\ UNCHANGED << cacheVars, enrichVars, storeVars, dpc >>
    \/ \E lost \in ResponseSizes : RunStoreReturns(1, lost) /\ UNCHANGED << cacheVars, enrichVars, storeVars, dpc >>
    \/ RunStoreThrows(1) /\ UNCHANGED << cacheVars, enrichVars, storeVars, dpc >>
    \/ RunFinalWrite(1) /\ UNCHANGED << cacheVars, enrichVars, storeVars, dpc >>
    \/ RunFinalWriteThrows(1) /\ UNCHANGED << cacheVars, enrichVars, storeVars, dpc >>
    \/ RunFatalWrite(1) /\ UNCHANGED << cacheVars, enrichVars, storeVars, dpc >>
    \/ RunFatalWriteThrows(1) /\ UNCHANGED << cacheVars, enrichVars, storeVars, dpc >>

SpecRun == SyncInit /\ [][RunNext]_vars

\* the same, every request and every write in flight returning or throwing
\* in the end
SpecRunFair == SpecRun /\ WF_vars(RunNext)

\* ---- the disconnect request, received while a run may be in flight -------
\* const userDoc = await db.collection('users').doc(userId).get(), 404 when
\* there is no document
DisconnectRead ==
    /\ dpc = "none"
    /\ dpc' = IF Exists(user) THEN "read" ELSE "404"
    /\ UNCHANGED << user, triggerVars, runVars >>

\* update({...: FieldValue.delete(), traktConnected: false})
DisconnectedDoc(doc) ==
    LET deleted == {"traktAccessToken", "traktRefreshToken", "traktTokenExpiresAt",
                    "traktConnectedAt", "traktSyncStatus"}
    IN [f \in ((DOMAIN doc) \ deleted) \cup {"traktConnected"} |->
          IF f = "traktConnected" THEN FALSE ELSE doc[f]]

DisconnectUpdate ==
    /\ dpc = "read"
    /\ user' = DisconnectedDoc(user)
    /\ dpc' = "done"
    /\ UNCHANGED << triggerVars, runVars >>

\* one trigger, its run pulling full collections, and one disconnect request
DisconnectNext ==
    \/ TriggerRead(1) /\ UNCHANGED << cacheVars, enrichVars, storeVars, dpc >>
    \/ TriggerRefreshed(1) /\ UNCHANGED << cacheVars, enrichVars, storeVars, dpc >>
    \/ TriggerSavesTokens(1) /\ UNCHANGED << cacheVars, enrichVars, storeVars, dpc >>
    \/ RunSetsInProgress(1) /\ UNCHANGED << cacheVars, enrichVars, storeVars, dpc >>
    \/ RunProfileReturns(1) /\ UNCHANGED << cacheVars, enrichVars, storeVars, dpc >>
    \/ RunFetchReturns(1, MaxItems) /\ UNCHANGED << cacheVars, enrichVars, storeVars, dpc >>
    \/ RunFetchThrows(1) /\ UNCHANGED << cacheVars, enrichVars, storeVars, dpc >>
    \/ RunStoreReturns(1, 0) /\ UNCHANGED << cacheVars, enrichVars, storeVars, dpc >>
    \/ RunFinalWrite(1) /\ UNCHANGED << cacheVars, enrichVars, storeVars, dpc >>
    \/ DisconnectRead /\ UNCHANGED << cacheVars, enrichVars, storeVars >>
    \/ DisconnectUpdate /\ UNCHANGED << cacheVars, enrichVars, storeVars >>

SpecDisconnect == SyncInit /\ [][DisconnectNext]_vars

\* concurrent triggers; the source service and the store answer every
\* request of the runs, each collection holding one record
TriggerNext ==
    \/ \E t \in Triggers : TriggerRead(t) /\ UNCHANGED << cacheVars, enrichVars, storeVars, dpc >>
    \/ \E t \in Triggers : TriggerReadThrows(t) /\ UNCHANGED << cacheVars, enrichVars, storeVars, dpc >>
    \/ \E t \in Triggers : TriggerRefreshed(t) /\ UNCHANGED << cacheVars, enrichVars, storeVars, dpc >>
    \/ \E t \in Triggers : TriggerRefreshFails(t) /\ UNCHANGED << cacheVars, enrichVars, storeVars, dpc >>
    \/ \E t \in Triggers : TriggerSavesTokens(t) /\ UNCHANGED << cacheVars, enrichVars, storeVars, dpc >>
    \/ \E t \in Triggers : TriggerSaveThrows(t) /\ UNCHANGED << cacheVars, enrichVars, storeVars, dpc >>
    \/ \E r \in Triggers : RunSetsInProgress(r) /\ UNCHANGED << cacheVars, enrichVars, storeVars, dpc >>
    \/ \E r \in Triggers : RunProfileReturns(r) /\ UNCHANGED << cacheVars, enrichVars, storeVars, dpc >>
    \/ \E r \in Triggers : RunFetchReturns(r, 1) /\ UNCHANGED << cacheVars, enrichVars, storeVars, dpc >>
    \/ \E r \in Triggers : RunStoreReturns(r, 0) /\ UNCHANGED << cacheVars, enrichVars, storeVars, dpc >>
    \/ \E r \in Triggers : RunFinalWrite(r) /\ UNCHANGED << cacheVars, enrichVars, storeVars, dpc >>

SpecTrigger == SyncInit /\ [][TriggerNext]_vars


\* ------------------------------------------------------------------------
\* Properties of the trigger and the run
\* ------------------------------------------------------------------------
\* C2: at most one run of syncTraktData is in flight for the user, whatever
\* the interleaving of the triggers
C2_OneRunInFlight ==
    Cardinality({r \in Triggers : InFlight(r)}) <= 1

\* the errors field of a status document, empty when the field is absent
ErrorsOf(syncStatus) ==
    IF "errors" \in DOMAIN syncStatus THEN syncStatus.errors ELSE << >>

\* the step is the failure of collection i of run r, caught by its block
CollectionFails(r, i) ==
    /\ rpc[r] \in {"fetch", "store"}
    /\ rcol[r] = i
    /\ Len(rerrors'[r]) = Len(rerrors[r]) + 1
    /\ rerrors'[r][Len(rerrors'[r])][1] = "Failed to sync"

\* the step is a status write of run r with which the run returns
StatusWritten(r) ==
    /\ rpc[r] \in {"finalWrite", "fatalWrite"}
    /\ rpc'[r] = "ended"

\* C3: when a collection fails, the next collection is attempted (its request
\* is issued, or the final status write after the last one) and the counts
\* of the collections that succeeded stay as they are; no step of a
\* collection takes the run to the catch of syncTraktData; the status write
\* of the run persists these counts as itemsSynced
C3_FailureIsolated ==
    [][ /\ \A i \in Collections :
              CollectionFails(1, i) =>
                  /\ ritems'[1] = ritems[1]
                  /\ IF i < 6
                     THEN rpc'[1] = "fetch" /\ rcol'[1] = i + 1
                     ELSE rpc'[1] = "finalWrite"
        /\ rpc[1] \in {"fetch", "store"} =>
              rpc'[1] \in {"fetch", "store", "finalWrite"}
        /\ StatusWritten(1) =>
              user'.traktSyncStatus.itemsSynced = ritems[1] ]_vars

\* a run whose first collection failed has returned, and the status it
\* persisted carries the counts of later collections
C3_Witness ==
    /\ rpc[1] = "ended"
    /\ Len(rerrors[1]) = 1
    /\ rerrors[1][1] = FailedToSync(1, "upstream")
    /\ user.traktSyncStatus.status = "failed"
    /\ user.traktSyncStatus.itemsSynced.movies = 0
    /\ user.traktSyncStatus.itemsSynced.ratings = 2
    /\ user.traktSyncStatus.itemsSynced.lists = 1

\* C8: the status with which a run returns is failed exactly when the run
\* recorded an error, and is written with the final itemsSynced and errors
\* in a single update of the user document: between its in_progress write
\* and that update the run writes nothing to the user document
C8_FinalStatus ==
    [][ /\ StatusWritten(1) =>
              /\ user'.traktSyncStatus.status \in {"failed", "completed"}
              /\ user'.traktSyncStatus.status = "failed" <=> Len(rerrors[1]) > 0
              /\ user'.traktSyncStatus.itemsSynced = ritems[1]
              /\ ErrorsOf(user'.traktSyncStatus) = rerrors[1]
        /\ (rpc[1] \in {"profile", "fetch", "store"} \/ rpc'[1] = "fatalWrite") =>
              user' = user ]_vars

\* a run has returned after a failed collection, its status failed
C8_Witness ==
    /\ rpc[1] = "ended"
    /\ user.traktSyncStatus.status = "failed"
    /\ ErrorsOf(user.traktSyncStatus) = << FailedToSync(4, "store") >>
    /\ user.traktSyncStatus.itemsSynced.favorites = 2

\* C9 as stated: a trigger that read the status in_progress answers 409 and
\* dispatches no run
C9_ConflictAnswer ==
    \A t \in Triggers :
        (tpc[t] = "done" /\ StatusOf(tdata[t]) = "in_progress") =>
            /\ tresp[t] = 409
            /\ rpc[t] = "none"

\* C9: a trigger that read the status in_progress of a connected user
\* dispatches no run; it answers 409, or 401 when the token it read was due
\* for a refresh and the refresh failed
C9_Rejected ==
    \A t \in Triggers :
        (tpc[t] = "done" /\ StatusOf(tdata[t]) = "in_progress") =>
            /\ rpc[t] = "none"
            /\ tresp[t] \in {409, 401}
            /\ tresp[t] = 401 => NeedsRefresh(tdata[t], now)

\* a trigger was answered 409 while the run of another trigger is in flight
C9_Witness ==
    \E t, r \in Triggers :
        /\ tpc[t] = "done"
        /\ StatusOf(tdata[t]) = "in_progress"
        /\ tresp[t] = 409
        /\ rpc[t] = "none"
        /\ InFlight(r)

\* C10: while a request of the run to the source service is in flight, the
\* stored status of the user is in_progress
C10_InProgressFirst ==
    Pulling(1) => StatusOf(user) = "in_progress"

\* the request of the third collection is in flight
C10_Witness ==
    /\ rpc[1] = "fetch"
    /\ rcol[1] = 3
    /\ StatusOf(user) = "in_progress"
    /\ tdata[1] # Null
    /\ StatusOf(tdata[1]) # "in_progress"


\* the step dispatches the run of trigger t
Dispatches(t) == rpc[t] = "none" /\ rpc'[t] # "none"

\* the tokens stored in the user document
StoredTokens(doc) ==
    << doc.traktAccessToken, doc.traktRefreshToken, doc.traktTokenExpiresAt >>

\* C28: a trigger that reads a token expiring less than one hour from now
\* dispatches no run in that step but asks for a refresh; when it dispatches
\* its run, the tokens of the refresh are in the user document by then and
\* the run has the new access token; when the refresh or the write of the
\* new tokens fails, the trigger answers 401, dispatches no run and leaves
\* the user document, its status and its tokens as they were
C28_RefreshBeforeDispatch ==
    [][ \A t \in Triggers :
          /\ (tpc[t] = "start" /\ Exists(tdata'[t]) /\ tdata'[t].traktConnected
                /\ NeedsRefresh(tdata'[t], now) /\ tpc'[t] # tpc[t])
             => tpc'[t] = "refreshing" /\ ~Dispatches(t)
          /\ (Dispatches(t) /\ NeedsRefresh(tdata'[t], now))
             => /\ tnew[t] # Null
                /\ tnew[t].access_token # tdata[t].traktAccessToken
                /\ StoredTokens(user') = << tnew[t].access_token,
                                           tnew[t].refresh_token,
                                           tnew[t].expiresAt >>
                /\ rtoken'[t] = tnew[t].access_token
          /\ (tpc[t] \in {"refreshing", "saving"} /\ tresp'[t] = 401)
             => /\ ~Dispatches(t)
                /\ rpc'[t] = "none"
                /\ user' = user ]_vars

\* a trigger that read a token with 59 minutes left has dispatched its run
\* with the refreshed token, which is the stored one
C28_Witness ==
    \E t \in Triggers :
        /\ tpc[t] = "done" /\ tresp[t] = 202
        /\ tdata[t].traktTokenExpiresAt - T0 = REFRESH_WINDOW_MINUTES - 1
        /\ rtoken[t] = tnew[t].access_token
        /\ rtoken[t] # tdata[t].traktAccessToken
        /\ user.traktAccessToken = rtoken[t]

\* the run of trigger r has returned its result or has rejected
Ended(r) == rpc[r] \in {"ended", "rejected"}

\* C30: a run that has been dispatched ends, and when it has ended the
\* stored status of the user is completed or failed
C30_RunEndsSettled ==
    /\ InFlight(1) ~> Ended(1)
    /\ [](Ended(1) => StatusOf(user) \in {"completed", "failed"})

\* the place of an error string in the order of the run: the number of the
\* collection it names, 7 for the error of the catch of the run
PlaceOf(error) ==
    IF error[1] = "Failed to sync"
    THEN CHOOSE i \in Collections : CollectionLabel(i) = error[2]
    ELSE 7

InRunOrder(errors) ==
    \A a, b \in 1..Len(errors) : a < b => PlaceOf(errors[a]) < PlaceOf(errors[b])

\* C33: the request of a collection is issued after the profile request (for
\* the first) or after the request or the sync function of the collection
\* before it has returned or thrown, the collections being taken in the
\* order 1 to 6; the errors of the run and the errors stored with the
\* status name the collections in that order
C33_FixedOrder ==
    [][ /\ rcol'[1] \in {rcol[1], rcol[1] + 1}
        /\ (rpc'[1] = "fetch" /\ (rpc[1] # "fetch" \/ rcol'[1] # rcol[1]))
           => /\ rcol'[1] = rcol[1] + 1
              /\ rcol[1] = 0 => rpc[1] = "profile"
              /\ rcol[1] > 0 => rpc[1] \in {"fetch", "store"}
        /\ rpc'[1] = "finalWrite" /\ rpc[1] # "finalWrite" => rcol[1] = 6
        /\ InRunOrder(rerrors'[1])
        /\ Exists(user') => InRunOrder(ErrorsOf(IF "traktSyncStatus" \in DOMAIN user'
                                                THEN user'.traktSyncStatus
                                                ELSE << >>)) ]_vars

\* a run has stored the errors of the ratings and of the favorites, in that
\* order
C33_Witness ==
    /\ rpc[1] = "ended"
    /\ "traktSyncStatus" \in DOMAIN user
    /\ ErrorsOf(user.traktSyncStatus) =
          << FailedToSync(3, "upstream"), FailedToSync(5, "store") >>

\* C39: once the disconnect request has completed, the user document holds
\* no traktSyncStatus (no trigger follows the disconnect here, the user not
\* being connected again)
C39_NoStatusAfterDisconnect ==
    dpc = "done" => "traktSyncStatus" \notin DOMAIN user

\* the step is the 409 answer of trigger t
Rejects(t) == tresp[t] # 409 /\ tresp'[t] = 409

TokenFields == {"traktAccessToken", "traktRefreshToken", "traktTokenExpiresAt"}

\* C40 as stated: the step in which a trigger answers 409 leaves the user
\* document as it was
C40_RejectedChangesNothing ==
    [][ \A t \in Triggers : Rejects(t) => user' = user ]_vars

\* C40, amended: a trigger that answers 409 leaves the user document as it
\* was when no refresh was due; when one was, the step of its answer stores the
\* tokens and the expiry of the refresh and leaves every other field, the
\* status among them, as it was; the steps of the trigger before its answer
\* write nothing
C40_RejectedKeepsStatus ==
    [][ \A t \in Triggers :
          /\ Rejects(t)
             => /\ DOMAIN user' = DOMAIN user
                /\ \A f \in (DOMAIN user) \ TokenFields : user'[f] = user[f]
                /\ IF tpc[t] = "saving"
                   THEN StoredTokens(user') =
                           << tnew[t].access_token, tnew[t].refresh_token,
                              tnew[t].expiresAt >>
                   ELSE user' = user
                /\ rpc'[t] = "none"
          /\ (tpc'[t] # tpc[t] /\ tpc'[t] \in {"refreshing", "saving"})
             => user' = user ]_vars

\* a trigger has refreshed the tokens, stored them and then answered 409
C40_Witness ==
    \E t \in Triggers :
        /\ tresp[t] = 409
        /\ tnew[t] # Null
        /\ user.traktAccessToken = tnew[t].access_token
        /\ user.traktAccessToken # tdata[t].traktAccessToken
        /\ StatusOf(user) = "in_progress"

\* the count that itemsSynced holds for collection i
CountOf(items, i) ==
    CASE i = 1 -> items.movies
      [] i = 2 -> items.shows
      [] i = 3 -> items.ratings
      [] i = 4 -> items.watchlistItems
      [] i = 5 -> items.favorites
      [] i = 6 -> items.lists

\* the step is a failure inside collection i of run r: its request did not
\* return, or its sync function stored fewer records than the response held
FailureInside(r, i) ==
    /\ rcol[r] = i
    /\ \/ rpc[r] = "fetch" /\ rpc'[r] # "store"
       \/ rpc[r] = "store" /\ rpc'[r] # "store" /\ CountOf(ritems'[r], i) < rresp[r]

\* C17: every failure inside a collection, a list of the lists collection
\* that could not be fetched or stored included, appends an error tagged
\* with the collection to the errors of the run
C17_EveryFailureRecorded ==
    [][ \A i \in Collections :
          FailureInside(1, i) =>
             \E cause \in {"upstream", "store"} :
                 rerrors'[1] = Append(rerrors[1], FailedToSync(i, cause)) ]_vars

\* the run failed on its profile request
ProfileFailed(r) ==
    rerrors[r] # << >> /\ rerrors[r][1] = FatalSyncError("upstream")

\* C18: a run whose profile request failed has issued no request of a
\* collection and run no sync function, its counts are all zero, nothing but
\* the failed status write follows, and the status it persists is failed
\* with the fatal error as its only error
C18_ProfileFailureAborts ==
    ProfileFailed(1) =>
        /\ rcol[1] = 0
        /\ ritems[1] = ZeroItems
        /\ rerrors[1] = << FatalSyncError("upstream") >>
        /\ rpc[1] \in {"fatalWrite", "ended", "rejected"}
        /\ rpc[1] = "ended" =>
              /\ StatusOf(user) = "failed"
              /\ user.traktSyncStatus.errors = rerrors[1]
              /\ user.traktSyncStatus.itemsSynced = ZeroItems

\* a run has returned after its profile request failed
C18_Witness ==
    /\ ProfileFailed(1)
    /\ rpc[1] = "ended"
    /\ rcol[1] = 0
    /\ StatusOf(user) = "failed"
    /\ user.traktSyncStatus.errors = << FatalSyncError("upstream") >>

\* C19 as stated: a run that terminated on the failure of its profile
\* request leaves the stored status at in_progress
C19_StaysInProgress ==
    (ProfileFailed(1) /\ rpc[1] \in {"ended", "rejected"}) =>
        StatusOf(user) = "in_progress"

\* C19: a run that terminated on the failure of its profile request has
\* replaced the status in_progress by failed; the status is still in_progress
\* only when the failed status write itself was rejected by the store
C19_FatalWritesFailed ==
    (ProfileFailed(1) /\ rpc[1] \in {"ended", "rejected"}) =>
        /\ rpc[1] = "ended" => StatusOf(user) = "failed"
        /\ rpc[1] = "rejected" => StatusOf(user) = "in_progress"

\* a user whose last run had completed has status failed after a run that
\* terminated on its profile request
C19_Witness ==
    /\ ProfileFailed(1)
    /\ rpc[1] = "ended"
    /\ StatusOf(tdata[1]) = "completed"
    /\ StatusOf(user) = "failed"


\* the number of operations one batch is meant to hold at most
MaxBatchOperations == 3

\* ------------------------------------------------------------------------
\* The documents written by the sync functions of the collections
\* ------------------------------------------------------------------------
\* a movie or show of the source service; tmdb = 0 stands for a missing id
Media(type, tmdb, trakt, title, year) ==
    [type |-> type, tmdb |-> tmdb, trakt |-> trakt, title |-> title, year |-> year]

\* Timestamp.fromDate(new Date(str)) of a date string of the source service
TimestampFromDate(str) == TimestampFromMillis(DateGetTime(str))

\* the decimal digits of a number, as a template string prints it
RECURSIVE DecimalDigits(_)
DecimalDigits(n) ==
    IF n < 10 THEN << n >> ELSE DecimalDigits(n \div 10) \o << n % 10 >>

\* a variant of the key that leaves the media type out
ItemKeyById(mediaType, id) == DecimalDigits(id)

\* the key of an item: `${media_type}-${id}`, the media type, a hyphen and
\* the digits of the id
ItemKey(mediaType, id) == << mediaType, "-" >> \o DecimalDigits(id)

\* movie -> "movie", show -> "tv"
MediaTypeOf(media) == IF media.type = "movie" THEN "movie" ELSE "tv"

\* a variant that keeps a record without a tmdb id
transformWatchedKeepsUnmapped(w) ==
    [id |-> w.media.tmdb,
     media_type |-> MediaTypeOf(w.media),
     status |-> "already_watched",
     addedAt |-> TimestampFromDate(w.last_watched_at),
     lastWatchedAt |-> TimestampFromDate(w.last_watched_at),
     traktId |-> w.media.trakt,
     traktPlays |-> w.plays,
     title |-> w.media.title,
     releaseYear |-> w.media.year]

\* transformWatchedMovie / transformWatchedShow: null without a tmdb id
transformWatched(w) ==
    IF w.media.tmdb = 0 THEN Null
    ELSE [id |-> w.media.tmdb,
          media_type |-> MediaTypeOf(w.media),
          status |-> "already_watched",
          addedAt |-> TimestampFromDate(w.last_watched_at),
          lastWatchedAt |-> TimestampFromDate(w.last_watched_at),
          traktId |-> w.media.trakt,
          traktPlays |-> w.plays,
          title |-> w.media.title,
          releaseYear |-> w.media.year]

\* transformWatchlistItem: null for an episode or season, or without tmdb id
transformWatchlistItem(it) ==
    IF it.media.type \notin {"movie", "show"} \/ it.media.tmdb = 0 THEN Null
    ELSE [id |-> it.media.tmdb,
          media_type |-> MediaTypeOf(it.media),
          status |-> "to_watch",
          addedAt |-> TimestampFromDate(it.listed_at),
          traktId |-> it.media.trakt,
          title |-> it.media.title,
          releaseYear |-> it.media.year]

\* transformFavorite and transformListItem
transformFavorite(it) ==
    IF it.media.type \notin {"movie", "show"} \/ it.media.tmdb = 0 THEN Null
    ELSE [id |-> it.media.tmdb,
          media_type |-> MediaTypeOf(it.media),
          addedAt |-> TimestampFromDate(it.listed_at),
          traktId |-> it.media.trakt,
          title |-> it.media.title]

transformListItem(it) == transformFavorite(it)

\* transformRating; the document id of a rating is `${media_type}-${tmdbId}`
transformRating(r) ==
    IF r.media.type \notin {"movie", "show"} \/ r.media.tmdb = 0 THEN Null
    ELSE [id |-> ItemKey(MediaTypeOf(r.media), r.media.tmdb),
          tmdbId |-> r.media.tmdb,
          mediaType |-> MediaTypeOf(r.media),
          rating |-> r.rating,
          ratedAt |-> TimestampFromDate(r.rated_at),
          traktId |-> r.media.trakt,
          title |-> r.media.title]

\* transformEpisodeTracking: the watched episodes of a show, keyed
\* `${season}_${episode}`
transformEpisodeTracking(w) ==
    IF w.media.tmdb = 0 THEN Null
    ELSE [showTmdbId |-> w.media.tmdb,
          showTitle |-> w.media.title,
          traktShowId |-> w.media.trakt,
          episodes |->
             [key \in { EpisodeKey(e.season, e.number) : e \in w.episodes } |->
                LET e == CHOOSE x \in w.episodes : EpisodeKey(x.season, x.number) = key
                IN [watched |-> TRUE,
                    watchedAt |-> TimestampFromDate(e.last_watched_at),
                    traktPlays |-> e.plays]]]

\* the results of the transform calls of the loops over a response, in the
\* order of the response
watchedItems(response) ==
    [i \in 1..Len(response) |-> transformWatched(response[i])]

watchlistItems(response) ==
    [i \in 1..Len(response) |-> transformWatchlistItem(response[i])]

favoriteItems(response) ==
    [i \in 1..Len(response) |-> transformFavorite(response[i])]

\* the items built by the loop of a sync function over the response: the
\* transformed records by key, a later record replacing an earlier one with
\* the same key
ItemsOf(transformed) ==
    LET kept == { i \in 1..Len(transformed) : transformed[i] # Null }
        keyOf(i) == ItemKey(transformed[i].media_type, transformed[i].id)
    IN [k \in { keyOf(i) : i \in kept } |->
          transformed[Max({ i \in kept : keyOf(i) = k })]]

\* the number of records the loop counted
CountKept(transformed) ==
    Cardinality({ i \in 1..Len(transformed) : transformed[i] # Null })

\* set(data, {merge: true}) of a document whose fields in flat are maps of
\* values and whose fields in deep are maps of records: the fields named by
\* data are written, those of a map field key by key and, in deep, for a key
\* stored already, field by field
MergeSetDeep(doc, data, flat, deep) ==
    [f \in (DOMAIN doc) \cup (DOMAIN data) |->
        IF f \notin DOMAIN data THEN doc[f]
        ELSE IF f \notin DOMAIN doc \/ f \notin (flat \cup deep) THEN data[f]
        ELSE [k \in (DOMAIN doc[f]) \cup (DOMAIN data[f]) |->
                IF k \notin DOMAIN data[f] THEN doc[f][k]
                ELSE IF k \notin DOMAIN doc[f] \/ f \in flat THEN data[f][k]
                ELSE MergeSet(doc[f][k], data[f][k])]]

\* the document of a collection, the empty function when there is none
DocOf(collection, id) ==
    IF id \in DOMAIN collection THEN collection[id] ELSE Null

\* the collection after a write to one document
WithDoc(collection, id, doc) ==
    [d \in (DOMAIN collection) \cup {id} |-> IF d = id THEN doc ELSE collection[d]]


\* Timestamp.now() at clock value t (minutes)
TimestampNow(t) == Timestamp(t * 60, 0)

\* what syncAlreadyWatched and syncWatchedShows set on lists/already-watched
AlreadyWatchedData(response, t) ==
    [id |-> "already-watched",
     name |-> "Already Watched",
     createdAt |-> TimestampNow(t),
     items |-> ItemsOf(watchedItems(response))]

\* what syncWatchlist and syncFavorites set on their list document
ListData(transformed, t) ==
    [items |-> ItemsOf(transformed),
     metadata |-> [lastUpdated |-> TimestampNow(t),
                   itemCount |-> CountKept(transformed)]]

\* the document id `trakt_${traktList.ids.trakt}`
ListDocId(traktId) ==
    CASE traktId = 7 -> "trakt_7"
      [] traktId = 8 -> "trakt_8"

IsItem(item) == item # Null

\* firestoreList of syncCustomLists
FirestoreList(traktList) ==
    [name |-> traktList.name,
     description |-> traktList.description,
     createdAt |-> TimestampFromDate(traktList.created_at),
     updatedAt |-> TimestampFromDate(traktList.updated_at),
     items |-> SelectSeq([i \in 1..Len(traktList.items) |->
                             transformListItem(traktList.items[i])], IsItem),
     traktId |-> traktList.trakt,
     privacy |-> IF traktList.privacy = "public" THEN "public" ELSE "private"]

\* syncAlreadyWatched: one merge write, none when nothing was counted
syncAlreadyWatched(ls, traktMovies, t) ==
    IF CountKept(watchedItems(traktMovies)) > 0
    THEN WithDoc(ls, "already-watched",
                 MergeSetDeep(DocOf(ls, "already-watched"),
                              AlreadyWatchedData(traktMovies, t), {}, {"items"}))
    ELSE ls

\* the episode tracking writes of syncWatchedShows: one merge write per show
\* with a tmdb id, in the order of the response
RECURSIVE CommitEpisodeBatch(_, _, _)
CommitEpisodeBatch(tr, traktShows, i) ==
    IF i > Len(traktShows) THEN tr
    ELSE LET episodeTracking == transformEpisodeTracking(traktShows[i])
         IN IF episodeTracking = Null
            THEN CommitEpisodeBatch(tr, traktShows, i + 1)
            ELSE CommitEpisodeBatch(
                    WithDoc(tr, episodeTracking.showTmdbId,
                            MergeSetDeep(DocOf(tr, episodeTracking.showTmdbId),
                                         episodeTracking, {}, {"episodes"})),
                    traktShows, i + 1)

\* syncRatings: one merge write per rating with a tmdb id
RECURSIVE CommitRatings(_, _, _)
CommitRatings(rs, traktRatings, i) ==
    IF i > Len(traktRatings) THEN rs
    ELSE LET rating == transformRating(traktRatings[i])
         IN IF rating = Null
            THEN CommitRatings(rs, traktRatings, i + 1)
            ELSE CommitRatings(WithDoc(rs, rating.id,
                                       MergeSet(DocOf(rs, rating.id), rating)),
                               traktRatings, i + 1)

\* the operations of the batch of syncRatings at its commit: one
\* batch.set per rating with a tmdb id, all of them in the one db.batch()
RatingsBatch(traktRatings) ==
    SelectSeq([i \in 1..Len(traktRatings) |-> transformRating(traktRatings[i])],
              LAMBDA rating : rating # Null)

\* the operations of episodeBatch of syncWatchedShows at its commit: one
\* episodeBatch.set per show with a tmdb id
EpisodeBatch(traktShows) ==
    SelectSeq([i \in 1..Len(traktShows) |-> transformEpisodeTracking(traktShows[i])],
              LAMBDA episodeTracking : episodeTracking # Null)

\* syncWatchlist and syncFavorites: one merge write, none when nothing was
\* counted
syncListDocument(ls, id, transformed, t) ==
    IF CountKept(transformed) > 0
    THEN WithDoc(ls, id,
                 MergeSetDeep(DocOf(ls, id), ListData(transformed, t),
                              {"metadata"}, {"items"}))
    ELSE ls

\* a variant of the list write that appends the items to those stored
RECURSIVE syncCustomListsAppending(_, _, _)
syncCustomListsAppending(ls, traktLists, i) ==
    IF i > Len(traktLists) THEN ls
    ELSE LET id == ListDocId(traktLists[i].trakt)
             old == DocOf(ls, id)
             fresh == FirestoreList(traktLists[i])
         IN syncCustomListsAppending(
               WithDoc(ls, id,
                       IF "items" \in DOMAIN old
                       THEN [fresh EXCEPT !.items = old.items \o @]
                       ELSE fresh),
               traktLists, i + 1)

\* syncCustomLists: docRef.set(firestoreList) for each list, without merge
RECURSIVE syncCustomLists(_, _, _)
syncCustomLists(ls, traktLists, i) ==
    IF i > Len(traktLists) THEN ls
    ELSE syncCustomLists(WithDoc(ls, ListDocId(traktLists[i].trakt),
                                 FirestoreList(traktLists[i])),
                         traktLists, i + 1)


\* ---- the responses of the source service -------------------------------
Alien == Media("movie", 11, 1011, "Alien", 1979)
Brazil == Media("movie", 12, 1012, "Brazil", 1985)
Obscure == Media("movie", 0, 1013, "Obscure", 2001)
Lost == Media("show", 100, 1100, "Lost", 2004)
\* a show with the catalog id of the movie Alien
AlienNation == Media("show", 11, 1111, "Alien Nation", 1989)
LostPilot == Media("episode", 555, 1555, "Pilot", 2004)

Watched(media, plays, ms, episodes) ==
    [media |-> media, plays |-> plays, last_watched_at |-> IsoString(ms),
     episodes |-> episodes]

\* a watched episode; the seasons of a watched show are given flat
WatchedEpisode(season, number, plays, ms) ==
    [season |-> season, number |-> number, plays |-> plays,
     last_watched_at |-> IsoString(ms)]

Listed(media, ms) == [media |-> media, listed_at |-> IsoString(ms)]

Rated(media, rating, ms) ==
    [media |-> media, rating |-> rating, rated_at |-> IsoString(ms)]

TraktList(traktId, name, privacy, items) ==
    [trakt |-> traktId, name |-> name, description |-> "", privacy |-> privacy,
     created_at |-> IsoString(1000), updated_at |-> IsoString(4500),
     items |-> items]

\* a ratings response of one record more than a batch is meant to hold
ManyRatings ==
    [i \in 1..(MaxBatchOperations + 1) |->
        Rated(Media("movie", 20 + i, 1020 + i, "Rated", 2000), 5, 3000 + i)]

\* the answers to the six requests: for each collection none, one or several
\* records, among them records without a catalog id, records of other
\* types and the same title twice
UpstreamResponses ==
    [movies : { << >>,
                << Watched(Alien, 2, 1500, {}), Watched(Obscure, 1, 1700, {}) >>,
                << Watched(Alien, 1, 1200, {}), Watched(Alien, 2, 1500, {}) >> },
     shows : { << >>,
               << Watched(Lost, 3, 2500, { WatchedEpisode(1, 1, 2, 2000),
                                           WatchedEpisode(1, 2, 1, 2500) }),
                  Watched(AlienNation, 1, 2600,
                          { WatchedEpisode(1, 1, 1, 2600) }) >> },
     ratings : { << >>,
                 << Rated(Alien, 8, 3000), Rated(LostPilot, 9, 3100),
                    Rated(Lost, 7, 3200), Rated(AlienNation, 5, 3300) >>,
                 ManyRatings },
     watchlist : { << >>,
                   << Listed(Brazil, 3500), Listed(LostPilot, 3600),
                      Listed(AlienNation, 3650), Listed(Alien, 3660) >>,
                   << Listed(Brazil, 3500) >> },
     favorites : { << >>,
                   << Listed(Lost, 3700), Listed(Alien, 3750),
                      Listed(AlienNation, 3800) >>,
                   << Listed(Lost, 3700) >> },
     lists : { << >>,
               << TraktList(7, "Top", "public",
                            << Listed(Alien, 4000), Listed(Obscure, 4100) >>) >>,
               << TraktList(7, "Top", "friends", << Listed(Brazil, 4200) >>),
                  TraktList(8, "Later", "private", << >>) >> }]

\* ---- the documents stored before the first run ---------------------------
\* an item stored by an earlier sync and enriched since
EnrichedItem(media, ms) ==
    MergeSet(transformFavorite(Listed(media, ms)),
             [poster_path |-> "/poster.jpg", status |-> "already_watched"])

UsedLists ==
    [id \in {"already-watched", "watchlist", "trakt_7"} |->
        CASE id = "already-watched" ->
               [id |-> "already-watched", name |-> "Already Watched",
                createdAt |-> TimestampNow(T0 - 10),
                items |-> [k \in {ItemKey("movie", 11), ItemKey("movie", 12)} |->
                             IF k = ItemKey("movie", 11) THEN EnrichedItem(Alien, 900)
                             ELSE EnrichedItem(Brazil, 950)],
                metadata |-> [lastEnriched |-> TimestampNow(T0 - 5)]]
          [] id = "watchlist" ->
               [items |-> [k \in {ItemKey("tv", 100)} |-> EnrichedItem(Lost, 800)],
                metadata |-> [lastUpdated |-> TimestampNow(T0 - 10),
                              itemCount |-> 1,
                              lastEnriched |-> TimestampNow(T0 - 5)]]
          [] id = "trakt_7" ->
               MergeSet(FirestoreList(TraktList(7, "Top", "public",
                                                << Listed(Lost, 700) >>)),
                        [pinned |-> TRUE])]

UsedRatings ==
    [k \in {ItemKey("movie", 11)} |->
        MergeSet(transformRating(Rated(Alien, 6, 600)), [review |-> "good"])]

UsedTracking ==
    [show \in {100} |->
        [showTmdbId |-> 100, showTitle |-> "Lost", traktShowId |-> 1100,
         episodes |->
            [key \in {EpisodeKey(1, 1), EpisodeKey(2, 1)} |->
                [watched |-> TRUE, watchedAt |-> Timestamp(1, 0),
                 traktPlays |-> 1, episodeName |-> "Stored"]],
         metadata |-> [lastEnriched |-> TimestampNow(T0 - 5)]]]

\* ---- the writes of a run, collection by collection -----------------------
NextWrite == [wpc EXCEPT !.col = @ + 1]

StoreFrame ==
    UNCHANGED << cacheVars, enrichVars, syncVars, upstream, afterFirst,
                 allAlreadyWatchedItems >>

\* the result of a run at its start: status in_progress was written
RunStarted == [itemsSynced |-> ZeroItems, errors |-> << >>, status |-> "in_progress"]

\* itemsSynced.<field> = <count returned by the sync function>
Counted(field, count) == [wresult EXCEPT !.itemsSynced[field] = count]

\* showCount and episodeCount of syncWatchedShows
ShowCount(traktShows) ==
    Cardinality({ i \in 1..Len(traktShows) :
                    transformEpisodeTracking(traktShows[i]) # Null })

RECURSIVE EpisodeCount(_, _)
EpisodeCount(traktShows, i) ==
    IF i > Len(traktShows) THEN 0
    ELSE LET episodeTracking == transformEpisodeTracking(traktShows[i])
         IN (IF episodeTracking = Null THEN 0
             ELSE Cardinality(DOMAIN episodeTracking.episodes))
            + EpisodeCount(traktShows, i + 1)

\* count of syncRatings
RatingCount(traktRatings) ==
    Cardinality({ i \in 1..Len(traktRatings) : transformRating(traktRatings[i]) # Null })

WritesMovies ==
    /\ wpc.col = 1
    /\ lists' = syncAlreadyWatched(lists, upstream.movies, now)
    /\ wresult' = Counted("movies", CountKept(watchedItems(upstream.movies)))
    /\ wpc' = NextWrite
    /\ UNCHANGED << ratings, tracking >>
    /\ StoreFrame

\* syncWatchedShows: the episode batch, then the shows in already-watched
WritesShows ==
    /\ wpc.col = 2
    /\ tracking' = CommitEpisodeBatch(tracking, upstream.shows, 1)
    /\ lists' = syncAlreadyWatched(lists, upstream.shows, now)
    /\ wresult' = [wresult EXCEPT
                      !.itemsSynced.shows = ShowCount(upstream.shows),
                      !.itemsSynced.episodes = EpisodeCount(upstream.shows, 1)]
    /\ wpc' = NextWrite
    /\ UNCHANGED ratings
    /\ StoreFrame

WritesRatings ==
    /\ wpc.col = 3
    /\ ratings' = CommitRatings(ratings, upstream.ratings, 1)
    /\ wresult' = Counted("ratings", RatingCount(upstream.ratings))
    /\ wpc' = NextWrite
    /\ UNCHANGED << lists, tracking >>
    /\ StoreFrame

WritesWatchlist ==
    /\ wpc.col = 4
    /\ lists' = syncListDocument(lists, "watchlist",
                                 watchlistItems(upstream.watchlist), now)
    /\ wresult' = Counted("watchlistItems", CountKept(watchlistItems(upstream.watchlist)))
    /\ wpc' = NextWrite
    /\ UNCHANGED << ratings, tracking >>
    /\ StoreFrame

WritesFavorites ==
    /\ wpc.col = 5
    /\ lists' = syncListDocument(lists, "favorites",
                                 favoriteItems(upstream.favorites), now)
    /\ wresult' = Counted("favorites", CountKept(favoriteItems(upstream.favorites)))
    /\ wpc' = NextWrite
    /\ UNCHANGED << ratings, tracking >>
    /\ StoreFrame

WritesLists ==
    /\ wpc.col = 6
    /\ lists' = syncCustomLists(lists, upstream.lists, 1)
    /\ wresult' = Counted("lists", Len(upstream.lists))
    /\ wpc' = NextWrite
    /\ UNCHANGED << ratings, tracking >>
    /\ StoreFrame

\* the final updateSyncStatus of the run
WritesStatus ==
    /\ wpc.col = 7
    /\ wresult.status = "in_progress"
    /\ wresult' = [wresult EXCEPT !.status = FinalStatus(wresult.errors)]
    /\ UNCHANGED << lists, ratings, tracking, wpc >>
    /\ StoreFrame

\* the first run is over; a minute later the second one starts, the source
\* service answering as before
SecondRun ==
    /\ wpc = [run |-> 1, col |-> 7]
    /\ wresult.status # "in_progress"
    /\ wresult' = RunStarted
    /\ afterFirst' = [lists |-> lists, ratings |-> ratings, tracking |-> tracking]
    /\ wpc' = [run |-> 2, col |-> 1]
    /\ now' = now + 1
    /\ UNCHANGED << cache, fetches, cpc, ckey, cbefore, cresp, last, cycle >>
    /\ UNCHANGED << enrichVars, syncVars, lists, ratings, tracking, upstream,
                    allAlreadyWatchedItems >>

StoreInit ==
    /\ CacheIdle
    /\ EnrichIdle
    /\ SyncIdle
    /\ upstream \in UpstreamResponses
    /\ \/ lists = << >> /\ ratings = << >> /\ tracking = << >>
       \/ lists = UsedLists /\ ratings = UsedRatings /\ tracking = UsedTracking
    /\ wpc = [run |-> 1, col |-> 1]
    /\ afterFirst = << >>
    /\ wresult = RunStarted
    /\ allAlreadyWatchedItems = << >>

StoreNext ==
    \/ WritesMovies
    \/ WritesShows
    \/ WritesRatings
    \/ WritesWatchlist
    \/ WritesFavorites
    \/ WritesLists
    \/ WritesStatus
    \/ SecondRun

SpecStore == StoreInit /\ [][StoreNext]_vars

\* ---- a second run after the watchlist and the favorites have changed at
\* ---- the source service --------------------------------------------------
ChangedUpstream ==
    { u \in UpstreamResponses :
        /\ u.movies = upstream.movies /\ u.shows = upstream.shows
        /\ u.ratings = upstream.ratings /\ u.lists = upstream.lists
        /\ u.watchlist # upstream.watchlist \/ u.favorites # upstream.favorites }

RunAgain ==
    /\ wpc = [run |-> 1, col |-> 7]
    /\ wresult.status # "in_progress"
    /\ wresult' = RunStarted
    /\ upstream' \in ChangedUpstream
    /\ wpc' = [run |-> 2, col |-> 1]
    /\ now' = now + 1
    /\ UNCHANGED << cache, fetches, cpc, ckey, cbefore, cresp, last, cycle >>
    /\ UNCHANGED << enrichVars, syncVars, lists, ratings, tracking, afterFirst,
                    allAlreadyWatchedItems >>

\* the first run starts with nothing stored
ResyncInit == StoreInit /\ lists = << >>

ResyncNext ==
    \/ WritesMovies
    \/ WritesShows
    \/ WritesRatings
    \/ WritesWatchlist
    \/ WritesFavorites
    \/ WritesLists
    \/ WritesStatus
    \/ RunAgain

SpecResync == ResyncInit /\ [][ResyncNext]_vars

\* ---- the revision that collects the watched movies and shows and writes
\* ---- them to already-watched together ------------------------------------
\* Object.assign(target, items), the items under item.id.toString()
AssignById(target, transformed) ==
    LET kept == { i \in 1..Len(transformed) : transformed[i] # Null }
        keyOf(i) == DecimalDigits(transformed[i].id)
    IN [k \in (DOMAIN target) \cup { keyOf(i) : i \in kept } |->
          IF \E i \in kept : keyOf(i) = k
          THEN transformed[Max({ i \in kept : keyOf(i) = k })]
          ELSE target[k]]

\* what the revision sets on lists/already-watched
CollectedData(items, t) ==
    [id |-> "already-watched",
     name |-> "Already Watched",
     createdAt |-> TimestampNow(t),
     items |-> items,
     metadata |-> [lastUpdated |-> TimestampNow(t),
                   itemCount |-> Cardinality(DOMAIN items)]]

CollectFrame ==
    UNCHANGED << cacheVars, enrichVars, syncVars, upstream, afterFirst, ratings >>

\* 1. the watched movies are pulled and collected
CollectsMovies ==
    /\ wpc.col = 1
    /\ allAlreadyWatchedItems' =
          AssignById(allAlreadyWatchedItems, watchedItems(upstream.movies))
    /\ wresult' = Counted("movies", CountKept(watchedItems(upstream.movies)))
    /\ wpc' = NextWrite
    /\ UNCHANGED << lists, tracking >>
    /\ CollectFrame

\* 2. the watched shows are pulled, syncWatchedShows commits the episode
\* batch and returns the shows, which are added to the map
CollectsShows ==
    /\ wpc.col = 2
    /\ tracking' = CommitEpisodeBatch(tracking, upstream.shows, 1)
    /\ allAlreadyWatchedItems' =
          AssignById(allAlreadyWatchedItems, watchedItems(upstream.shows))
    /\ wresult' = [wresult EXCEPT
                      !.itemsSynced.shows = ShowCount(upstream.shows),
                      !.itemsSynced.episodes = EpisodeCount(upstream.shows, 1)]
    /\ wpc' = NextWrite
    /\ UNCHANGED lists
    /\ CollectFrame

\* the pull of the movies or of the shows throws: the catch block of the
\* collection
CollectThrows ==
    /\ wpc.col \in {1, 2}
    /\ wresult' = [wresult EXCEPT !.errors = Append(@, FailedToSync(wpc.col, "upstream"))]
    /\ wpc' = NextWrite
    /\ UNCHANGED << lists, tracking, allAlreadyWatchedItems >>
    /\ CollectFrame

\* the one write of already-watched, none when the map is empty
WritesCollected ==
    /\ wpc.col = 3
    /\ lists' = IF DOMAIN allAlreadyWatchedItems # {}
                THEN WithDoc(lists, "already-watched",
                             MergeSetDeep(DocOf(lists, "already-watched"),
                                          CollectedData(allAlreadyWatchedItems, now),
                                          {"metadata"}, {"items"}))
                ELSE lists
    /\ wpc' = NextWrite
    /\ UNCHANGED << tracking, wresult, allAlreadyWatchedItems >>
    /\ CollectFrame

CollectNext ==
    \/ CollectsMovies
    \/ CollectsShows
    \/ CollectThrows
    \/ WritesCollected

\* already-watched as an earlier run of the revision left it
CollectedBefore ==
    [id \in {"already-watched"} |->
        [id |-> "already-watched", name |-> "Already Watched",
         createdAt |-> TimestampNow(T0 - 10),
         items |-> [k \in {DecimalDigits(12)} |-> EnrichedItem(Brazil, 950)],
         metadata |-> [lastUpdated |-> TimestampNow(T0 - 10), itemCount |-> 1]]]

CollectInit ==
    /\ CacheIdle
    /\ EnrichIdle
    /\ SyncIdle
    /\ upstream \in UpstreamResponses
    /\ lists \in {<< >>, CollectedBefore}
    /\ ratings = << >>
    /\ tracking \in {<< >>, UsedTracking}
    /\ wpc = [run |-> 1, col |-> 1]
    /\ afterFirst = << >>
    /\ wresult = RunStarted
    /\ allAlreadyWatchedItems = << >>

SpecCollect == CollectInit /\ [][CollectNext]_vars


\* ------------------------------------------------------------------------
\* Properties of the collection writes
\* ------------------------------------------------------------------------
\* the fields of a document but the timestamps a write takes from the clock:
\* createdAt of the document and lastUpdated of its metadata
Settled(doc) ==
    [f \in DOMAIN doc \ {"createdAt"} |->
        IF f = "metadata"
        THEN [g \in DOMAIN doc[f] \ {"lastUpdated"} |-> doc[f][g]]
        ELSE doc[f]]

\* C11: when a second run has followed the first with the same answers of
\* the source service, every list, rating and episode tracking document has
\* the fields it had after the first run, with the same values, but for the
\* timestamps taken from the clock
C11_SecondRunChangesNothing ==
    wpc = [run |-> 2, col |-> 7] =>
        /\ DOMAIN lists = DOMAIN afterFirst.lists
        /\ \A id \in DOMAIN lists :
              Settled(lists[id]) = Settled(afterFirst.lists[id])
        /\ ratings = afterFirst.ratings
        /\ tracking = afterFirst.tracking

\* a second run is over that has written to all six collections and has
\* refreshed a timestamp
C11_Witness ==
    /\ wpc = [run |-> 2, col |-> 7]
    /\ Len(upstream.movies) > 0 /\ Len(upstream.shows) > 0
    /\ Len(upstream.ratings) > 0 /\ Len(upstream.watchlist) > 0
    /\ Len(upstream.favorites) > 0 /\ Len(upstream.lists) > 0
    /\ lists # afterFirst.lists
    /\ Len(lists["trakt_7"].items) = 1
    /\ "poster_path" \in DOMAIN lists["already-watched"].items[ItemKey("movie", 11)]


\* the fields of old that data does not name are in new with their values
UnnamedFieldsKept(old, new, data) ==
    \A f \in DOMAIN old \ DOMAIN data : f \in DOMAIN new /\ new[f] = old[f]

\* for the map field f of old: an entry that data does not name is in new
\* with its value, and so are the fields of a named entry that data does not
\* name
UnnamedEntriesKept(old, new, data, f) ==
    f \in DOMAIN old =>
        /\ f \in DOMAIN new
        /\ \A k \in DOMAIN old[f] :
              /\ k \in DOMAIN new[f]
              /\ IF f \in DOMAIN data /\ k \in DOMAIN data[f]
                 THEN UnnamedFieldsKept(old[f][k], new[f][k], data[f][k])
                 ELSE new[f][k] = old[f][k]

\* for the items array of a custom list: an item that data does not name is
\* still an item of new
UnnamedElementsKept(old, new, data) ==
    "items" \in DOMAIN old =>
        \A i \in 1..Len(old.items) :
            (\A j \in 1..Len(data.items) :
                 ItemKey(data.items[j].media_type, data.items[j].id)
                    # ItemKey(old.items[i].media_type, old.items[i].id))
            => \E j \in 1..Len(new.items) : new.items[j] = old.items[i]

CustomListIds == {"trakt_7", "trakt_8"}

\* what the step of the run at wpc.col writes to the list document id, the
\* empty function when it does not write to it
ListWritten(id) ==
    CASE wpc.col = 1 /\ id = "already-watched"
            /\ CountKept(watchedItems(upstream.movies)) > 0 ->
              AlreadyWatchedData(upstream.movies, now)
      [] wpc.col = 2 /\ id = "already-watched"
            /\ CountKept(watchedItems(upstream.shows)) > 0 ->
              AlreadyWatchedData(upstream.shows, now)
      [] wpc.col = 4 /\ id = "watchlist"
            /\ CountKept(watchlistItems(upstream.watchlist)) > 0 ->
              ListData(watchlistItems(upstream.watchlist), now)
      [] wpc.col = 5 /\ id = "favorites"
            /\ CountKept(favoriteItems(upstream.favorites)) > 0 ->
              ListData(favoriteItems(upstream.favorites), now)
      [] wpc.col = 6 /\ \E i \in 1..Len(upstream.lists) :
                            ListDocId(upstream.lists[i].trakt) = id ->
              FirestoreList(upstream.lists[
                  CHOOSE i \in 1..Len(upstream.lists) :
                      ListDocId(upstream.lists[i].trakt) = id])
      [] OTHER -> Null

\* what the ratings step writes to the rating document id
RatingWritten(id) ==
    IF wpc.col = 3 /\ \E i \in 1..Len(upstream.ratings) :
                         /\ transformRating(upstream.ratings[i]) # Null
                         /\ transformRating(upstream.ratings[i]).id = id
    THEN transformRating(upstream.ratings[
             Max({ i \in 1..Len(upstream.ratings) :
                     /\ transformRating(upstream.ratings[i]) # Null
                     /\ transformRating(upstream.ratings[i]).id = id })])
    ELSE Null

\* what the shows step writes to the episode tracking document of a show
TrackingWritten(show) ==
    IF wpc.col = 2 /\ \E i \in 1..Len(upstream.shows) :
                         upstream.shows[i].media.tmdb = show
    THEN transformEpisodeTracking(upstream.shows[
             Max({ i \in 1..Len(upstream.shows) :
                     upstream.shows[i].media.tmdb = show })])
    ELSE Null

\* C20: a write of a collection sync keeps what it does not name: of every
\* document stored before the step, the fields, the items (of an items map or
\* an items array) and the episodes the step does not name are stored after
\* it with the same values
C20_WritesKeepUnnamed ==
    [][ /\ \A id \in DOMAIN lists :
              /\ id \in DOMAIN lists'
              /\ UnnamedFieldsKept(lists[id], lists'[id], ListWritten(id))
              /\ IF id \in CustomListIds
                 THEN ListWritten(id) # Null =>
                         UnnamedElementsKept(lists[id], lists'[id], ListWritten(id))
                 ELSE UnnamedEntriesKept(lists[id], lists'[id], ListWritten(id), "items")
        /\ \A id \in DOMAIN ratings :
              /\ id \in DOMAIN ratings'
              /\ UnnamedFieldsKept(ratings[id], ratings'[id], RatingWritten(id))
        /\ \A show \in DOMAIN tracking :
              /\ show \in DOMAIN tracking'
              /\ UnnamedFieldsKept(tracking[show], tracking'[show], TrackingWritten(show))
              /\ UnnamedEntriesKept(tracking[show], tracking'[show],
                                    TrackingWritten(show), "episodes") ]_vars


\* the collections the run has written so far
Written(col) == wpc.run = 2 \/ wpc.col > col

\* the items maps of the list documents the syncs write with keys, with the
\* records of the ratings: all the keyed records stored, as (key, media
\* type, catalog id)
KeyedRecords ==
    UNION { { << k, lists[id].items[k].media_type, lists[id].items[k].id >> :
                k \in DOMAIN lists[id].items } :
            id \in DOMAIN lists \cap {"already-watched", "watchlist", "favorites"} }
    \cup { << k, ratings[k].mediaType, ratings[k].tmdbId >> : k \in DOMAIN ratings }

\* the record is stored in the items map of the list document id
StoredAsItem(id, item) ==
    item # Null =>
        /\ id \in DOMAIN lists
        /\ \E k \in DOMAIN lists[id].items :
              /\ lists[id].items[k].media_type = item.media_type
              /\ lists[id].items[k].id = item.id

Mapped(response) ==
    Cardinality({ i \in 1..Len(response) :
                    /\ response[i].media.type \in {"movie", "show"}
                    /\ response[i].media.tmdb # 0 })

\* the source ids of the movies and shows of the responses that have no
\* catalog id
UnmappedIds ==
    LET inResponse(response) ==
            { response[i].media.trakt :
                i \in { j \in 1..Len(response) : response[j].media.tmdb = 0 } }
    IN inResponse(upstream.movies) \cup inResponse(upstream.shows)
       \cup inResponse(upstream.ratings) \cup inResponse(upstream.watchlist)
       \cup inResponse(upstream.favorites)
       \cup UNION { inResponse(upstream.lists[i].items) : i \in 1..Len(upstream.lists) }

\* the source ids of the records stored in the lists, the ratings and the
\* episode tracking documents
StoredIds ==
    UNION { IF id \in CustomListIds
            THEN { lists[id].items[i].traktId : i \in 1..Len(lists[id].items) }
            ELSE { lists[id].items[k].traktId : k \in DOMAIN lists[id].items } :
            id \in DOMAIN lists }
    \cup { ratings[k].traktId : k \in DOMAIN ratings }
    \cup { tracking[show].traktShowId : show \in DOMAIN tracking }

\* C27: no record without a catalog id is stored; itemsSynced counts, for a
\* collection written, the records that are movies or shows with a catalog
\* id and no other; the error list stays empty and the status the run
\* writes at its end is completed
C27_UnmappedDropped ==
    /\ StoredIds \cap UnmappedIds = {}
    /\ 0 \notin DOMAIN tracking
    /\ wresult.errors = << >>
    /\ wresult.status \in {"in_progress", "completed"}
    /\ wpc.col > 1 => wresult.itemsSynced.movies = Mapped(upstream.movies)
    /\ wpc.col > 2 => wresult.itemsSynced.shows = Mapped(upstream.shows)
    /\ wpc.col > 3 => wresult.itemsSynced.ratings = Mapped(upstream.ratings)
    /\ wpc.col > 4 => wresult.itemsSynced.watchlistItems = Mapped(upstream.watchlist)
    /\ wpc.col > 5 => wresult.itemsSynced.favorites = Mapped(upstream.favorites)

\* a run has ended with status completed after answers that held a movie
\* without a catalog id among the watched movies and on a custom list: one
\* movie was counted and the list was stored without the record
C27_Witness ==
    /\ wpc.col = 7 /\ wresult.status = "completed"
    /\ \E i \in 1..Len(upstream.movies) : upstream.movies[i].media.tmdb = 0
    /\ Len(upstream.movies) = 2 /\ wresult.itemsSynced.movies = 1
    /\ Len(upstream.lists) = 1 /\ Len(upstream.lists[1].items) = 2
    /\ Len(lists["trakt_7"].items) = 1
    /\ Len(upstream.ratings) > 0 /\ Len(upstream.watchlist) > 0


\* C34: a batch the run has committed (the episode batch once the shows are
\* written, the ratings batch once the ratings are) holds at most
\* MaxBatchOperations operations, however many records the response held
C34_BatchesBounded ==
    /\ wpc.col > 2 => Len(EpisodeBatch(upstream.shows)) <= MaxBatchOperations
    /\ wpc.col > 3 => Len(RatingsBatch(upstream.ratings)) <= MaxBatchOperations


\* already-watched holds an item of the media type for the catalog id
StoredWatched(mediaType, id) ==
    /\ "already-watched" \in DOMAIN lists
    /\ \E k \in DOMAIN lists["already-watched"].items :
          /\ lists["already-watched"].items[k].media_type = mediaType
          /\ lists["already-watched"].items[k].id = id

\* a watched movie and a watched show of the responses with one catalog id
SharedIds ==
    LET idsOf(response) ==
            { response[i].media.tmdb : i \in 1..Len(response) } \ {0}
    IN idsOf(upstream.movies) \cap idsOf(upstream.shows)

\* C35: in the revision that collects the watched movies and shows in one
\* map, after the write of a run whose two pulls succeeded, a movie and a show
\* with the same catalog id are both among the items of already-watched
C35_BothStored ==
    (wpc.col = 4 /\ wresult.errors = << >>)
    => \A id \in SharedIds : StoredWatched("movie", id) /\ StoredWatched("tv", id)


\* C38: the watchlist document and the favorites document, once written,
\* hold in metadata.itemCount the number of entries of their items map
C38_ItemCountMatches ==
    \A id \in {"watchlist", "favorites"} \cap DOMAIN lists :
        lists[id].metadata.itemCount = Cardinality(DOMAIN lists[id].items)
====
